---- MODULE Spec2Model ----
(***************************************************************************)
(* A model of the CAN signal codec and message database of the Ford F-150  *)
(* CAN bus interface tools:                                                *)
(*   message_watcher/can_embedded_logger.py    (Signal, Message,           *)
(*                                              EmbeddedDBCDatabase)       *)
(*   message_watcher/can_standalone_logger.py  (CANStandaloneLogger)       *)
(*   experiments/message_watcher/can_embedded_logger.py (EmbeddedCANLogger)*)
(*   message_watcher/validate_dbc.py           (validate_dbc_file)         *)
(*                                                                         *)
(*   can_analyzer/can_action_analyzer.py       (CANActionAnalyzer; the     *)
(*       copy under experiments/ adds capture_binary_toggle and            *)
(*       analyze_binary_toggles, the shared methods are identical)         *)
(*                                                                         *)
(* Python integers are unbounded; the model keeps every value below 2^31   *)
(* by bounding the signal length (MaxLen).  Python lists are 0-based, TLA+ *)
(* sequences 1-based: data_bytes[byte_index] is data_bytes[byte_index+1].  *)
(***************************************************************************)
EXTENDS Integers, Sequences, FiniteSets, TLC

VARIABLES
    data,            \* the payload handed to the decoder (msg.data), 0..8 bytes
    sig,             \* the signal descriptor (a Signal object / extract_signal's arguments)
    op,              \* which operation has run on (data, sig): "idle" before any
    extracted,       \* the value returned by _extract_motorola / _extract_intel
    raw_value,       \* the local raw_value after sign handling
    result,          \* the value the decoder returned
    can_id,          \* decode_can_message: the arbitration id decoded
    decoded,         \* decode_can_message: the returned dict (or None)
    messages,        \* EmbeddedDBCDatabase.messages (a list)
    _message_dict,   \* EmbeddedDBCDatabase._message_dict (name -> message)
    _frame_id_dict,  \* EmbeddedDBCDatabase._frame_id_dict (frame id -> message)
    dbc,             \* validate_dbc_file: db.messages of the file being validated
    validation,      \* validate_dbc_file: "not run", or the outcome "passed" / "failed"
    captures,        \* CANActionAnalyzer.captures (capture name -> list of messages)
    analyzer_op,     \* which analyzer method has run: "idle" before any
    compared,        \* compare_captures: the loop's locals for every id of all_ids
    differences,     \* compare_captures: the returned dict (or the exception raised)
    toggle_analysis, \* analyze_binary_toggles: the returned dict (or None)
    analyzed,        \* analyze_binary_toggles: what its loop computed for each msg_id
    diff,            \* _calculate_confidence: its argument
    score,           \* _calculate_confidence: the returned score
    sorted_diffs,    \* print_differences: the entries in the order they are listed
    files,           \* the files of sessions_dir (base name -> the JSON list written)
    saved,           \* history: for each file, the name and the capture save_capture wrote
    persist_op,      \* the last capture / save / load call and what it returned
    plotted,         \* plot_message_timeline: the figure it saved (or the exception)
    running,         \* EmbeddedCANLogger.running, the stop flag
    main_pc,         \* where the main thread is in run()
    returned,        \* what run() returned: "nothing" until it returns
    listener_pc,     \* where the listener thread is in message_listener()
    recv_msg,        \* message_listener: the frame bus.recv returned
    pending,         \* update_message_data: the signals still to be written
    data_lock,       \* who holds self.data_lock: "free", "listener" or "reader"
    message_data,    \* self.message_data (message name -> signal name -> value)
    message_timestamps, \* self.message_timestamps: TRUE once a time is stored
    log_entries,     \* log_current_state: the entries read so far
    log_line,        \* the last line log_current_state printed
    stats,           \* self.stats
    bus,             \* the CAN bus: "closed", "open" or "shutdown"
    error_printed,   \* "Error in message listener" was printed
    heard,           \* history: the frames bus.recv has returned
    recv_after_stop, \* history: receive calls that returned after running was cleared
    changes_only,    \* CANDecoder.changes_only
    last_message_data, \* CANDecoder.last_message_data (arbitration id -> bytes)
    run_received,    \* history: the messages CANDecoder.run received, in order
    shown,           \* for each received message, whether run printed it
    log_file,        \* the entries run wrote to the log file
    indicators,      \* for each received message, the change indicator of its printed line
    cm_pc,           \* capture_messages: "not called", "loop" or "done"
    cm_args,         \* capture_messages: duration, action_name, repeat_count, repeat_interval
    cm_clock,        \* capture_messages: time.time() - start_time, in ticks
    cm_messages,     \* capture_messages: the local list messages
    cm_action_timestamps, \* capture_messages: the local list action_timestamps
    cm_next_action_time,  \* capture_messages: next_action_time - start_time
    cm_action_count, \* capture_messages: the local action_count
    cm_result,       \* capture_messages: the list it returned (self.captures[action_name])
    bt_pc,           \* capture_binary_toggle: "not called", "state", "done"
    bt_args,         \* capture_binary_toggle: toggle_count, state_duration and the labels
    bt_clock,        \* capture_binary_toggle: time.time() - start_time, in ticks
    bt_toggle_num,   \* capture_binary_toggle: the loop variable toggle_num
    bt_state_end_time,  \* capture_binary_toggle: state_end_time - start_time
    bt_current_state,   \* capture_binary_toggle: the local current_state
    bt_toggle_events,   \* capture_binary_toggle: the local list toggle_events
    bt_messages,     \* capture_binary_toggle: the local list messages
    bt_interrupted,  \* capture_binary_toggle: KeyboardInterrupt was caught
    bt_result        \* capture_binary_toggle: the list it returned

codecVars == <<data, sig, op, extracted, raw_value, result, can_id, decoded>>

dbVars == <<messages, _message_dict, _frame_id_dict>>

validateVars == <<dbc, validation>>

analyzerVars == <<captures, analyzer_op, compared, differences, toggle_analysis,
                  analyzed,
                  diff, score, sorted_diffs>>

persistVars == <<files, saved, persist_op>>

plotVars == <<plotted>>

watcherVars == <<running, main_pc, returned, listener_pc, recv_msg, pending, data_lock,
                 message_data, message_timestamps, log_entries, log_line, stats, bus,
                 error_printed, heard, recv_after_stop>>

decoderVars == <<changes_only, last_message_data, run_received, shown, log_file,
                 indicators>>

captureVars == <<cm_pc, cm_args, cm_clock, cm_messages, cm_action_timestamps,
                 cm_next_action_time, cm_action_count, cm_result>>

toggleVars == <<bt_pc, bt_args, bt_clock, bt_toggle_num, bt_state_end_time,
                bt_current_state, bt_toggle_events, bt_messages, bt_interrupted, bt_result>>

auxVars == <<persistVars, plotVars, watcherVars, decoderVars, captureVars, toggleVars>>

vars == <<codecVars, dbVars, validateVars, analyzerVars, auxVars>>

(***************************************************************************)
(* Bounds of the model and constants of the program.                       *)
(***************************************************************************)
\* Largest start_bit a descriptor is drawn with (beyond the last frame bit).
MaxStart == 65
\* Largest signal length a descriptor is drawn with.
MaxLen == 7
\* Largest number of add_message calls made after the database is built.
MaxAdded == 3
\* Bytes of a CAN frame payload: list(data) + [0] * (8 - len(data)).
FrameBytes == 8
\* Index of the last bit of a frame (spec 4.1: bit positions [0, 63]).
LastBit == FrameBytes * 8 - 1

(***************************************************************************)
(* Values returned by the decoders.  One record shape for all of them:     *)
(*   kind   "number"            a plain int/float (scaled_value, raw)      *)
(*          "NamedSignalValue"  can_embedded_logger.NamedSignalValue       *)
(*          "SignalValue"       can_standalone_logger's local SignalValue  *)
(*          "str"               a string (a label, or "Unknown(<raw>)")    *)
(*          "None"              the except branch's return None            *)
(*          "raised"            an exception left the function             *)
(*   value  the .value attribute (or the number itself)                    *)
(*   name   the .name attribute (or the string); "" stands for None        *)
(*   scaled the ._scaled attribute of SignalValue (else equal to value)    *)
(***************************************************************************)
Number(v) == [kind |-> "number", value |-> v, name |-> "", scaled |-> v]

NoResult == [kind |-> "None", value |-> 0, name |-> "", scaled |-> 0]

Raised(exc) == [kind |-> "raised", value |-> 0, name |-> exc, scaled |-> 0]

\* NamedSignalValue.__init__: self.value = int(value); self.name = name.
\* value is an int here (integer scale and offset), so int(value) = value.
NamedSignalValue(value, name) ==
    [kind |-> "NamedSignalValue", value |-> value, name |-> name, scaled |-> value]

\* SignalValue.__init__ of extract_signal: value, name, and _scaled = scaled_value.
SignalValue(value, name, scaled_value) ==
    [kind |-> "SignalValue", value |-> value, name |-> name, scaled |-> scaled_value]

\* A string result of decode_can_message: a label, or f"Unknown({raw_value})"
\* modelled as the text "Unknown" with the formatted number in value.
Str(text, v) == [kind |-> "str", value |-> v, name |-> text, scaled |-> v]

(***************************************************************************)
(* Bit helpers.                                                            *)
(***************************************************************************)
\* (byte >> bit_index) & 1
BitOf(byte, bit_index) == (byte \div (2 ^ bit_index)) % 2

\* raw_value | (bit_value << pos), for a single bit bit_value
OrBit(raw, bit_value, pos) ==
    IF bit_value = 1 /\ (raw \div (2 ^ pos)) % 2 = 0 THEN raw + 2 ^ pos ELSE raw

\* list(data) + [0] * (8 - len(data)); [0] * n is [] for n <= 0
PadBytes(d) ==
    d \o [i \in 1..(IF Len(d) < FrameBytes THEN FrameBytes - Len(d) ELSE 0) |-> 0]

(***************************************************************************)
(* Signal._extract_motorola and Signal._extract_intel.                     *)
(***************************************************************************)
\* for bit_pos in range(start - length + 1, start + 1): ...
RECURSIVE MotorolaLoop(_, _, _, _, _)
MotorolaLoop(data_bytes, start, bit_pos, stop, raw) ==
    IF bit_pos >= stop THEN raw
    ELSE LET byte_index == bit_pos \div 8
             bit_index == 7 - (bit_pos % 8)
             next_raw ==
                 IF /\ 0 <= byte_index /\ byte_index < Len(data_bytes)
                    /\ 0 <= bit_index /\ bit_index <= 7
                 THEN OrBit(raw, BitOf(data_bytes[byte_index + 1], bit_index),
                            start - bit_pos)
                 ELSE raw
         IN  MotorolaLoop(data_bytes, start, bit_pos + 1, stop, next_raw)

\* _extract_motorola without the lower bound check on byte_index: a negative
\* index reads from the end of the list.
RECURSIVE MotorolaLoopUnchecked(_, _, _, _, _)
MotorolaLoopUnchecked(data_bytes, start, bit_pos, stop, raw) ==
    IF bit_pos >= stop THEN raw
    ELSE LET byte_index == bit_pos \div 8
             bit_index == 7 - (bit_pos % 8)
             index == IF byte_index < 0 THEN Len(data_bytes) + byte_index ELSE byte_index
             next_raw ==
                 IF byte_index < Len(data_bytes) /\ index >= 0
                 THEN OrBit(raw, BitOf(data_bytes[index + 1], bit_index), start - bit_pos)
                 ELSE raw
         IN  MotorolaLoopUnchecked(data_bytes, start, bit_pos + 1, stop, next_raw)

extract_motorola_unchecked(s, d) ==
    MotorolaLoopUnchecked(PadBytes(d), s.start, s.start - s.length + 1, s.start + 1, 0)

_extract_motorola(s, d) ==
    MotorolaLoop(PadBytes(d), s.start, s.start - s.length + 1, s.start + 1, 0)

\* for i in range(length): bit_pos = start + i ...
RECURSIVE IntelLoop(_, _, _, _, _)
IntelLoop(data_bytes, start, i, length, raw) ==
    IF i >= length THEN raw
    ELSE LET bit_pos == start + i
             byte_index == bit_pos \div 8
             bit_index == bit_pos % 8
             next_raw ==
                 IF /\ 0 <= byte_index /\ byte_index < Len(data_bytes)
                    /\ 0 <= bit_index /\ bit_index <= 7
                 THEN OrBit(raw, BitOf(data_bytes[byte_index + 1], bit_index), i)
                 ELSE raw
         IN  IntelLoop(data_bytes, start, i + 1, length, next_raw)

_extract_intel(s, d) == IntelLoop(PadBytes(d), s.start, 0, s.length, 0)

(***************************************************************************)
(* Signal.decode.  Returns the locals it computed with the value returned. *)
(* The try body raises nothing on a byte sequence, so the except branch    *)
(* (return None) is not taken.                                             *)
(***************************************************************************)
\* if is_signed and length > 0 and (raw_value & (1 << (length - 1))): raw_value -= 1 << length
SignExtend(is_signed, length, raw) ==
    IF is_signed /\ length > 0 /\ BitOf(raw, length - 1) = 1
    THEN raw - 2 ^ length
    ELSE raw

SignalDecode(s, d) ==
    LET ex     == IF s.byte_order = "big_endian"
                  THEN _extract_motorola(s, d)
                  ELSE _extract_intel(s, d)
        raw    == SignExtend(s.is_signed, s.length, ex)
        scaled == raw * s.scale + s.offset
    IN  [extracted |-> ex,
         raw_value |-> raw,
         result    |-> IF s.choices # <<>> /\ raw \in DOMAIN s.choices
                       THEN NamedSignalValue(scaled, s.choices[raw])
                       ELSE Number(scaled)]

(***************************************************************************)
(* CANStandaloneLogger.extract_signal (Motorola only).                     *)
(***************************************************************************)
\* for i in range(length): bit_position = start_bit - i ...
RECURSIVE StandaloneLoop(_, _, _, _, _)
StandaloneLoop(data_bytes, start_bit, i, length, raw) ==
    IF i >= length THEN raw
    ELSE LET bit_position == start_bit - i
             byte_index == bit_position \div 8
             bit_index == 7 - (bit_position % 8)
             next_raw ==
                 IF /\ 0 <= byte_index /\ byte_index < Len(data_bytes)
                    /\ 0 <= bit_index /\ bit_index <= 7
                 THEN OrBit(raw, BitOf(data_bytes[byte_index + 1], bit_index),
                            length - 1 - i)
                 ELSE raw
         IN  StandaloneLoop(data_bytes, start_bit, i + 1, length, next_raw)

\* The try body raises nothing on a byte sequence: return None is not taken.
extract_signal(d, start_bit, length, scale, offset, signed, enum_values) ==
    LET ex     == StandaloneLoop(PadBytes(d), start_bit, 0, length, 0)
        raw    == SignExtend(signed, length, ex)
        scaled == raw * scale + offset
        enum_name == IF enum_values # <<>> /\ raw \in DOMAIN enum_values
                     THEN enum_values[raw]
                     ELSE ""
    IN  [extracted |-> ex,
         raw_value |-> raw,
         result    |-> SignalValue(raw, enum_name, scaled)]

(***************************************************************************)
(* experiments EmbeddedCANLogger.extract_signal_value.                     *)
(*   data_int = int.from_bytes(data, byteorder='little')                   *)
(*   bit_pos  = start_bit - length + 1                                     *)
(*   value    = (data_int >> bit_pos) & ((1 << length) - 1)                *)
(* data_int has up to 64 bits.  The masked value is made of the bits       *)
(* bit_pos .. bit_pos+length-1 of data_int, which for length <= 17 lie in  *)
(* the three bytes from byte bit_pos // 8 on: the model shifts and masks   *)
(* that 24-bit window of data_int.  A negative shift count raises          *)
(* ValueError.                                                             *)
(***************************************************************************)
\* Byte q (0-based) of the payload, 0 beyond its end.
ByteAt(d, q) == IF q >= 0 /\ q < Len(d) THEN d[q + 1] ELSE 0

\* (int.from_bytes(d, 'little') >> (8 * q)) & 0xFFFFFF
LittleWindow(d, q) == ByteAt(d, q) + 256 * ByteAt(d, q + 1) + 65536 * ByteAt(d, q + 2)

\* extract_signal_value with bit_pos = start_bit - length (the + 1 forgotten).
extract_signal_value_off_by_one(d, start_bit, length) ==
    LET bit_pos == start_bit - length
    IN  IF bit_pos < 0
        THEN Raised("ValueError")
        ELSE Number((LittleWindow(d, bit_pos \div 8) \div (2 ^ (bit_pos % 8)))
                    % (2 ^ length))

extract_signal_value(d, start_bit, length) ==
    LET bit_pos == start_bit - length + 1
    IN  IF bit_pos < 0
        THEN Raised("ValueError")
        ELSE Number((LittleWindow(d, bit_pos \div 8) \div (2 ^ (bit_pos % 8)))
                    % (2 ^ length))

(***************************************************************************)
(* experiments CAN_MESSAGES and EmbeddedCANLogger.decode_can_message.      *)
(* A signal definition's 'values' is None (has_values = FALSE) or a dict.  *)
(***************************************************************************)
OnOffTable == (0 :> "Off") @@ (1 :> "On") @@ (2 :> "Unknown") @@ (3 :> "Invalid")

CAN_MESSAGES ==
    (963 :> [name |-> "BCM_Lamp_Stat_FD1",
             signals |->
               ("PudLamp_D_Rq" :> [start_bit |-> 11, length |-> 2, has_values |-> TRUE,
                    values |-> (0 :> "OFF") @@ (1 :> "ON") @@ (2 :> "RAMP_UP")
                               @@ (3 :> "RAMP_DOWN")])
               @@ ("Illuminated_Entry_Stat" :> [start_bit |-> 63, length |-> 2,
                    has_values |-> TRUE, values |-> OnOffTable])
               @@ ("Dr_Courtesy_Light_Stat" :> [start_bit |-> 49, length |-> 2,
                    has_values |-> TRUE, values |-> OnOffTable])])
    @@ (817 :> [name |-> "Locking_Systems_2_FD1",
             signals |->
               ("Veh_Lock_Status" :> [start_bit |-> 34, length |-> 2, has_values |-> TRUE,
                    values |-> (0 :> "LOCK_DBL") @@ (1 :> "LOCK_ALL")
                               @@ (2 :> "UNLOCK_ALL") @@ (3 :> "UNLOCK_DRV")])])
    @@ (374 :> [name |-> "PowertrainData_10",
             signals |->
               ("TrnPrkSys_D_Actl" :> [start_bit |-> 31, length |-> 4, has_values |-> TRUE,
                    values |-> (0 :> "NotKnown") @@ (1 :> "Park")
                               @@ (2 :> "TransitionCloseToPark") @@ (3 :> "AtNoSpring")
                               @@ (4 :> "TransitionCloseToOutOfPark") @@ (5 :> "OutOfPark")
                               @@ (6 :> "Override") @@ (7 :> "OutOfRangeLow")
                               @@ (8 :> "OutOfRangeHigh") @@ (9 :> "FrequencyError")
                               @@ (15 :> "Faulty")])])
    @@ (1084 :> [name |-> "Battery_Mgmt_3_FD1",
             signals |->
               ("BSBattSOC" :> [start_bit |-> 22, length |-> 7, has_values |-> FALSE,
                    values |-> <<>>])])

NotDecoded == [returned |-> "None", message_name |-> "", signals |-> <<>>]

\* One signal of decode_can_message: the label, "Unknown(<raw>)", or the raw value.
DecodeOneSignal(d, signal_def) ==
    LET r == extract_signal_value(d, signal_def.start_bit, signal_def.length)
    IN  IF r.kind = "raised" THEN r
        ELSE IF signal_def.has_values
             THEN IF r.value \in DOMAIN signal_def.values
                  THEN Str(signal_def.values[r.value], r.value)
                  ELSE Str("Unknown", r.value)
             ELSE Number(r.value)

decode_can_message(id, d) ==
    IF id \notin DOMAIN CAN_MESSAGES
    THEN NotDecoded
    ELSE LET msg_def == CAN_MESSAGES[id]
         IN  [returned     |-> "dict",
              message_name |-> msg_def.name,
              signals      |-> [n \in DOMAIN msg_def.signals |->
                                   DecodeOneSignal(d, msg_def.signals[n])]]

(***************************************************************************)
(* Inputs of the codec: payloads and descriptors.                          *)
(***************************************************************************)
\* (byte, following byte) pairs the payloads are built from: 0x08 and 0x32 of the
\* test vectors, and 0xA5 followed by 0xFF.
BytePairs == {<<8, 0>>, <<50, 0>>, <<165, 255>>}

\* Payload lengths drawn: empty, short, and the full frame.
PayloadLens == {0, 3, FrameBytes}

\* The payload of n bytes that holds v at byte k, w at byte k+1 and 0 elsewhere.
Payload(n, k, v, w) ==
    [i \in 1..n |-> IF i = k THEN v ELSE IF i = k + 1 THEN w ELSE 0]

Payloads ==
    { Payload(n, k, pr[1], pr[2]) : n \in PayloadLens, k \in 1..FrameBytes,
                                    pr \in BytePairs }

\* PudLamp_D_Rq's value table of the embedded database.
PudLampChoices == (0 :> "OFF") @@ (1 :> "ON") @@ (2 :> "RAMP_UP") @@ (3 :> "RAMP_DOWN")

\* (is_signed, scale, offset, choices) of the descriptors drawn.
Profiles ==
    { [is_signed |-> FALSE, scale |-> 1, offset |-> 0, choices |-> <<>>],
      [is_signed |-> FALSE, scale |-> 2, offset |-> 1, choices |-> PudLampChoices],
      [is_signed |-> TRUE,  scale |-> 1, offset |-> 0, choices |-> PudLampChoices] }

Descriptor(start, length, byte_order, p) ==
    [start |-> start, length |-> length, byte_order |-> byte_order,
     is_signed |-> p.is_signed, scale |-> p.scale, offset |-> p.offset,
     choices |-> p.choices]

Descriptors ==
    { Descriptor(st, ln, bo, p) : st \in 0..MaxStart, ln \in 1..MaxLen,
                                  bo \in {"big_endian", "little_endian"}, p \in Profiles }

\* Arbitration ids handed to decode_can_message: the four of CAN_MESSAGES, one other.
CanIds == DOMAIN CAN_MESSAGES \cup {291}

(***************************************************************************)
(* Message and EmbeddedDBCDatabase of can_embedded_logger.py.  A message   *)
(* is [frame_id, name, length, signals]; a signal is a descriptor with a   *)
(* name (sender, minimum, maximum and unit are read by no operation).      *)
(***************************************************************************)
NamedSignal(name, start, length, byte_order, p) ==
    [name |-> name, start |-> start, length |-> length, byte_order |-> byte_order,
     is_signed |-> p.is_signed, scale |-> p.scale, offset |-> p.offset,
     choices |-> p.choices]

Plain == [is_signed |-> FALSE, scale |-> 1, offset |-> 0, choices |-> <<>>]

Enum(table) == [is_signed |-> FALSE, scale |-> 1, offset |-> 0, choices |-> table]

Message(frame_id, name, length, signals) ==
    [frame_id |-> frame_id, name |-> name, length |-> length, signals |-> signals]

EmptyDatabase == [messages |-> <<>>, _message_dict |-> <<>>, _frame_id_dict |-> <<>>]

\* dict[key] = value
DictSet(dict, key, value) ==
    [k \in DOMAIN dict \cup {key} |-> IF k = key THEN value ELSE dict[k]]

\* add_message: append to the list, store under the name and under the frame id.
add_message(db, message) ==
    [messages       |-> Append(db.messages, message),
     _message_dict  |-> DictSet(db._message_dict, message.name, message),
     _frame_id_dict |-> DictSet(db._frame_id_dict, message.frame_id, message)]

\* The four messages of _build_embedded_database.
BCM_Lamp_Stat_FD1 ==
    Message(963, "BCM_Lamp_Stat_FD1", 8,
        << NamedSignal("Illuminated_Entry_Stat", 63, 2, "big_endian", Enum(OnOffTable)),
           NamedSignal("Dr_Courtesy_Light_Stat", 49, 2, "big_endian", Enum(OnOffTable)),
           NamedSignal("PudLamp_D_Rq", 11, 2, "big_endian", Enum(PudLampChoices)) >>)

Locking_Systems_2_FD1 ==
    Message(817, "Locking_Systems_2_FD1", 8,
        << NamedSignal("Veh_Lock_Status", 34, 2, "big_endian",
               Enum((0 :> "LOCK_DBL") @@ (1 :> "LOCK_ALL") @@ (2 :> "UNLOCK_ALL")
                    @@ (3 :> "UNLOCK_DRV"))) >>)

PowertrainData_10 ==
    Message(374, "PowertrainData_10", 8,
        << NamedSignal("TrnPrkSys_D_Actl", 31, 4, "big_endian",
               Enum((0 :> "NotKnown") @@ (1 :> "Park") @@ (2 :> "TransitionCloseToPark")
                    @@ (3 :> "AtNoSpring") @@ (4 :> "TransitionCloseToOutOfPark")
                    @@ (5 :> "OutOfPark") @@ (6 :> "Override") @@ (7 :> "OutOfRangeLow")
                    @@ (8 :> "OutOfRangeHigh") @@ (9 :> "FrequencyError")
                    @@ (10 :> "NotUsed_1") @@ (11 :> "NotUsed_2") @@ (12 :> "NotUsed_3")
                    @@ (13 :> "NotUsed_4") @@ (14 :> "NotUsed_5") @@ (15 :> "Faulty"))) >>)

Battery_Mgmt_3_FD1 ==
    Message(1084, "Battery_Mgmt_3_FD1", 8,
        << NamedSignal("BSBattSOC", 22, 7, "big_endian", Plain) >>)

\* EmbeddedDBCDatabase.__init__: empty containers, then _build_embedded_database.
_build_embedded_database ==
    add_message(add_message(add_message(add_message(EmptyDatabase,
        BCM_Lamp_Stat_FD1), Locking_Systems_2_FD1), PowertrainData_10), Battery_Mgmt_3_FD1)

(***************************************************************************)
(* validate_dbc.py: validate_dbc_file and find_signal_overlaps.            *)
(***************************************************************************)
\* range(a, b) as a set
Range(a, b) == {x \in a..(b - 1) : TRUE}

\* The bit_range validate_dbc_file computes for a signal.
bit_range(signal) ==
    IF signal.byte_order = "big_endian"
    THEN Range(signal.start - signal.length + 1, signal.start + 1)
    ELSE Range(signal.start, signal.start + signal.length)

\* The (i, j), i < j, for which find_signal_overlaps appends an overlap.
find_signal_overlaps(signals) ==
    { pr \in (1..Len(signals)) \X (1..Len(signals)) :
        /\ pr[1] < pr[2]
        /\ bit_range(signals[pr[1]]) \cap bit_range(signals[pr[2]]) # {} }

\* The checks of one message: FALSE when one of them sets validation_passed = False.
\* A message without signals is skipped (continue).
MessageChecksPass(msg) ==
    \/ Len(msg.signals) = 0
    \/ /\ \A i \in 1..Len(msg.signals) :
            LET signal == msg.signals[i]
            IN  /\ ~(signal.start < 0 \/ signal.start >= msg.length * 8)
                /\ ~(signal.length <= 0 \/ signal.length > 64)
       /\ find_signal_overlaps(msg.signals) = {}

\* len(msg_ids) != len(set(msg_ids))
DuplicateMessageIds(msgs) ==
    Len(msgs) # Cardinality({msgs[i].frame_id : i \in 1..Len(msgs)})

\* validate_dbc_file: parsed is FALSE when cantools.database.load_file raises (the
\* except branch returns False); otherwise db.messages = msgs is checked.
validate_dbc_file(parsed, msgs) ==
    /\ parsed
    /\ \A i \in 1..Len(msgs) : MessageChecksPass(msgs[i])
    /\ ~DuplicateMessageIds(msgs)

(***************************************************************************)
(* Inputs of the database and of the validator.                            *)
(***************************************************************************)
SignalA == NamedSignal("SignalA", 11, 2, "big_endian", Plain)

\* Shares bit 10 with SignalA.
SignalB == NamedSignal("SignalB", 10, 2, "big_endian", Plain)

\* Messages handed to add_message: a registered or a new frame id, a registered or a
\* new name, one signal or two overlapping ones.
MessageInputs ==
    { Message(id, name, 8, sigs) : id \in {963, 512},
                                   name \in {"BCM_Lamp_Stat_FD1", "New_Message"},
                                   sigs \in {<<SignalA>>, <<SignalA, SignalB>>} }

\* Signals of the validated files: two that overlap, one reaching below bit 0, an
\* Intel one in the third byte, one starting beyond the frame, and lengths 0 and 65.
FileSignals ==
    << SignalA,
       SignalB,
       NamedSignal("BelowZero", 1, 4, "big_endian", Plain),
       NamedSignal("IntelByte", 16, 8, "little_endian", Plain),
       NamedSignal("StartOutside", 64, 2, "big_endian", Plain),
       NamedSignal("Empty", 5, 0, "big_endian", Plain),
       NamedSignal("TooLong", 63, 65, "little_endian", Plain) >>

\* Signal lists of a file's message: none, one, or two of FileSignals.
FileSignalLists ==
    {<<>>}
    \cup { <<FileSignals[i]>> : i \in 1..Len(FileSignals) }
    \cup { <<FileSignals[pr[1]], FileSignals[pr[2]]>> :
             pr \in { q \in (1..Len(FileSignals)) \X (1..Len(FileSignals)) : q[1] < q[2] } }

\* Declared message lengths (DLC) of the validated messages.
FileDlcs == {2, 8}

FileMessages == { Message(963, "First", dlc, sigs) : dlc \in FileDlcs,
                                                    sigs \in FileSignalLists }

\* A second message of the file: with the first one's frame id, or with another.
SecondMessages == { Message(id, "Second", 8, <<SignalA>>) : id \in {963, 817} }

DbcFiles ==
    {<<>>}
    \cup { <<m>> : m \in FileMessages }
    \cup { <<m, n>> : m \in FileMessages, n \in SecondMessages }

(***************************************************************************)
(* CANActionAnalyzer (can_action_analyzer.py).                             *)
(*                                                                         *)
(* Timestamps are floats in seconds, relative to the start of a capture.   *)
(* The model counts them in ticks, TicksPerSecond ticks to the second, and *)
(* keeps every quotient as an exact fraction [num, den] in lowest terms    *)
(* with den > 0; float('inf') is the fraction 1/0.                         *)
(***************************************************************************)
TicksPerSecond == 2

Abs(x) == IF x < 0 THEN -x ELSE x

RECURSIVE Gcd(_, _)
Gcd(a, b) == IF b = 0 THEN a ELSE Gcd(b, a % b)

\* n / d for d > 0
Rat(n, d) ==
    LET g == Gcd(Abs(n), d)
    IN  [num |-> n \div g, den |-> d \div g]

\* float('inf')
Inf == [num |-> 1, den |-> 0]

\* abs(x)
RatAbs(x) == [num |-> Abs(x.num), den |-> x.den]

\* x > y, for fractions and for float('inf') (inf > inf is False)
RatGreater(x, y) == x.num * y.den > y.num * x.den

\* x - y and x / y * 100 for finite fractions, y > 0 in the division
RatMinus(x, y) == Rat(x.num * y.den - y.num * x.den, x.den * y.den)

RatPercentOf(x, y) == Rat(x.num * y.den * 100, x.den * y.num)

\* A message object: a received can.Message (attrs = {}), or the metadata message
\* that capture_messages / capture_binary_toggle insert at the head of a capture and
\* that carries extra attributes; attrs is the set of those hasattr() finds.
CanMessage(timestamp, arbitration_id, bytes) ==
    [timestamp |-> timestamp, arbitration_id |-> arbitration_id, data |-> bytes,
     dlc |-> Len(bytes), is_extended_id |-> FALSE, is_remote_frame |-> FALSE,
     is_error_frame |-> FALSE,
     attrs |-> {}, action_timestamps |-> <<>>, toggle_events |-> <<>>,
     initial_state |-> "", toggled_state |-> "", capture_type |-> ""]

ZeroData == <<0, 0, 0, 0, 0, 0, 0, 0>>

\* capture_messages: meta_msg with action_timestamps = [0] + action_timestamps
ActionMetaMessage(action_timestamps) ==
    [timestamp |-> 0, arbitration_id |-> 0, data |-> ZeroData,
     dlc |-> 8, is_extended_id |-> FALSE, is_remote_frame |-> FALSE,
     is_error_frame |-> FALSE,
     attrs |-> {"action_timestamps"}, action_timestamps |-> action_timestamps,
     toggle_events |-> <<>>, initial_state |-> "", toggled_state |-> "",
     capture_type |-> ""]

\* capture_binary_toggle: meta_msg with toggle_events, initial_state, toggled_state
ToggleMetaMessage(toggle_events, initial_state, toggled_state) ==
    [timestamp |-> 0, arbitration_id |-> 0, data |-> ZeroData,
     dlc |-> 8, is_extended_id |-> FALSE, is_remote_frame |-> FALSE,
     is_error_frame |-> FALSE,
     attrs |-> {"toggle_events", "initial_state", "toggled_state", "capture_type"},
     action_timestamps |-> <<>>, toggle_events |-> toggle_events,
     initial_state |-> initial_state, toggled_state |-> toggled_state,
     capture_type |-> "binary_toggle"]

\* [msg for msg in msgs if msg.arbitration_id == msg_id]: by_id[msg_id]
RECURSIVE ById(_, _)
ById(msgs, msg_id) ==
    IF msgs = <<>> THEN <<>>
    ELSE IF Head(msgs).arbitration_id = msg_id
         THEN <<Head(msgs)>> \o ById(Tail(msgs), msg_id)
         ELSE ById(Tail(msgs), msg_id)

IdsOf(msgs) == { msgs[i].arbitration_id : i \in DOMAIN msgs }

\* set(bytes(msg.data) for msg in msgs)
PayloadsOf(msgs) == { msgs[i].data : i \in DOMAIN msgs }

\* DurationOf with the timestamp of the first message instead of the last.
DurationOfFirst(msgs) ==
    IF msgs # <<>> THEN msgs[1].timestamp ELSE 1 * TicksPerSecond

\* messages[-1].timestamp if messages else 1
DurationOf(msgs) ==
    IF msgs # <<>> THEN msgs[Len(msgs)].timestamp ELSE 1 * TicksPerSecond

\* for action_time in action_timestamps: for msg_time in msg_timestamps:
\*     if abs(msg_time - action_time) < window: correlation_count += 1; break
RECURSIVE CorrelationCount(_, _)
CorrelationCount(action_timestamps, msg_timestamps) ==
    IF action_timestamps = <<>> THEN 0
    ELSE LET action_time == Head(action_timestamps)
             window == 1 * TicksPerSecond
             near == \E i \in DOMAIN msg_timestamps :
                        Abs(msg_timestamps[i] - action_time) < window
         IN  (IF near THEN 1 ELSE 0)
             + CorrelationCount(Tail(action_timestamps), msg_timestamps)

\* freq_change_pct = (freq_change / base_freq * 100) if base_freq > 0 else float('inf')
FreqChangePct(base_freq, action_freq) ==
    IF base_freq.num > 0
    THEN RatPercentOf(RatMinus(action_freq, base_freq), base_freq)
    ELSE Inf

\* IsNew asking for more than one frame in the action capture.
IsNewRepeated(base_count, action_count) == base_count = 0 /\ action_count > 1

\* IsNew without the test of the baseline.
IsNewInAction(base_count, action_count) == action_count > 0

\* is_new = base_count == 0 and action_count > 0
IsNew(base_count, action_count) == base_count = 0 /\ action_count > 0

\* has_freq_change = abs(freq_change_pct) > 20
HasFreqChange(freq_change_pct) == RatGreater(RatAbs(freq_change_pct), Rat(20, 1))

\* The body of compare_captures' loop for one msg_id: its locals.  Both durations are
\* non-zero here.  action_by_id is a defaultdict and action_by_id[msg_id] has been
\* read by then, so "msg_id in action_by_id" is true.
CompareOneId(msg_id, action_messages, baseline_messages, action_timestamps) ==
    LET base_msgs == ById(baseline_messages, msg_id)
        action_msgs == ById(action_messages, msg_id)
        base_count == Len(base_msgs)
        action_count == Len(action_msgs)
        base_freq == Rat(base_count * TicksPerSecond, DurationOf(baseline_messages))
        action_freq == Rat(action_count * TicksPerSecond, DurationOf(action_messages))
        freq_change_pct == FreqChangePct(base_freq, action_freq)
        is_new == IsNew(base_count, action_count)
        has_freq_change == HasFreqChange(freq_change_pct)
        unique_payloads_base == PayloadsOf(base_msgs)
        unique_payloads_action == PayloadsOf(action_msgs)
        new_payloads == unique_payloads_action \ unique_payloads_base
        msg_timestamps == [i \in DOMAIN action_msgs |-> action_msgs[i].timestamp]
        correlation_count == CorrelationCount(action_timestamps, msg_timestamps)
        action_correlated ==
            /\ action_timestamps # <<>>
            /\ Len(action_timestamps) > 1
            /\ 2 * correlation_count >= Len(action_timestamps)
    IN  [base_count |-> base_count,
         action_count |-> action_count,
         base_freq |-> base_freq,
         action_freq |-> action_freq,
         freq_change_pct |-> freq_change_pct,
         is_new |-> is_new,
         has_freq_change |-> has_freq_change,
         new_payloads |-> new_payloads,
         baseline_payloads |-> unique_payloads_base,
         action_payloads |-> unique_payloads_action,
         action_correlated |-> action_correlated,
         included |-> (is_new \/ has_freq_change \/ new_payloads # {})]

\* differences[msg_id] = {...}; the display string 'msg_id' and 'action_name' are
\* left out, the payload lists are kept as sets.
DiffEntry(c) ==
    [is_new |-> c.is_new,
     base_count |-> c.base_count,
     action_count |-> c.action_count,
     freq_change_pct |-> c.freq_change_pct,
     new_payloads |-> c.new_payloads,
     baseline_payloads |-> c.baseline_payloads,
     action_payloads |-> c.action_payloads,
     action_correlated |-> c.action_correlated]

\* What a method returned: a dict, None, or the exception that left it.
Dict(items) == [kind |-> "dict", items |-> items, exc |-> ""]

NoneReturned == [kind |-> "None", items |-> <<>>, exc |-> ""]

RaisedFrom(exc) == [kind |-> "raised", items |-> <<>>, exc |-> exc]

\* compare_captures(action_name, baseline_name): the returned value with the locals
\* of the loop for every id (compared).  The first division of the loop raises
\* ZeroDivisionError when the last timestamp of a capture is 0.
compare_captures(caps, action_name, baseline_name) ==
    IF action_name \notin DOMAIN caps \/ baseline_name \notin DOMAIN caps
    THEN [differences |-> NoneReturned, compared |-> <<>>]
    ELSE
    LET stored == caps[action_name]
        baseline_messages == caps[baseline_name]
        multi == stored # <<>> /\ "action_timestamps" \in Head(stored).attrs
        action_timestamps == IF multi THEN Head(stored).action_timestamps ELSE <<>>
        action_messages == IF multi THEN Tail(stored) ELSE stored
        all_ids == IdsOf(action_messages) \cup IdsOf(baseline_messages)
    IN  IF all_ids # {} /\ (DurationOf(baseline_messages) = 0
                            \/ DurationOf(action_messages) = 0)
        THEN [differences |-> RaisedFrom("ZeroDivisionError"), compared |-> <<>>]
        ELSE LET locals == [msg_id \in all_ids |->
                               CompareOneId(msg_id, action_messages, baseline_messages,
                                            action_timestamps)]
                 reported == { msg_id \in all_ids : locals[msg_id].included }
             IN  [differences |-> Dict([msg_id \in reported |-> DiffEntry(locals[msg_id])]),
                  compared |-> locals]

Min(a, b) == IF a <= b THEN a ELSE b

\* _calculate_confidence without the cap at 100.
calculate_confidence_uncapped(d) ==
    (IF d.is_new THEN 70 ELSE 0)
    + (IF d.new_payloads # {} THEN Min(Cardinality(d.new_payloads) * 10, 20) ELSE 0)
    + (IF RatGreater(RatAbs(d.freq_change_pct), Rat(100, 1)) THEN 10
       ELSE IF RatGreater(RatAbs(d.freq_change_pct), Rat(50, 1)) THEN 5 ELSE 0)
    + (IF d.action_correlated THEN 15 ELSE 0)

\* _calculate_confidence(diff)
_calculate_confidence(d) ==
    LET new_score == IF d.is_new THEN 70 ELSE 0
        payload_score ==
            IF d.new_payloads # {}
            THEN new_score + Min(Cardinality(d.new_payloads) * 10, 20)
            ELSE new_score
        freq_score ==
            IF RatGreater(RatAbs(d.freq_change_pct), Rat(100, 1)) THEN payload_score + 10
            ELSE IF RatGreater(RatAbs(d.freq_change_pct), Rat(50, 1)) THEN payload_score + 5
            ELSE payload_score
        total == IF d.action_correlated THEN freq_score + 15 ELSE freq_score
    IN  Min(total, 100)

\* The sort key of print_differences, a tuple:
\* (action_correlated, is_new, len(new_payloads), abs(freq_change_pct))
SortKey(d) ==
    <<IF d.action_correlated THEN 1 ELSE 0,
      IF d.is_new THEN 1 ELSE 0,
      Cardinality(d.new_payloads),
      RatAbs(d.freq_change_pct)>>

\* Python's tuple comparison k1 < k2 on two sort keys
KeyLess(k1, k2) ==
    \/ k1[1] < k2[1]
    \/ k1[1] = k2[1] /\ k1[2] < k2[2]
    \/ k1[1] = k2[1] /\ k1[2] = k2[2] /\ k1[3] < k2[3]
    \/ k1[1] = k2[1] /\ k1[2] = k2[2] /\ k1[3] = k2[3] /\ RatGreater(k2[4], k1[4])

\* InsertDescending for sorted(...) without reverse=True: ascending keys.
RECURSIVE InsertAscending(_, _, _)
InsertAscending(placed, msg_id, items) ==
    IF placed = <<>> THEN <<msg_id>>
    ELSE IF KeyLess(SortKey(items[msg_id]), SortKey(items[Head(placed)]))
         THEN <<msg_id>> \o placed
         ELSE <<Head(placed)>> \o InsertAscending(Tail(placed), msg_id, items)

\* sorted(..., reverse=True) is stable: an item goes after every item already placed
\* whose key is not smaller than its own.
RECURSIVE InsertDescending(_, _, _)
InsertDescending(placed, msg_id, items) ==
    IF placed = <<>> THEN <<msg_id>>
    ELSE IF KeyLess(SortKey(items[Head(placed)]), SortKey(items[msg_id]))
         THEN <<msg_id>> \o placed
         ELSE <<Head(placed)>> \o InsertDescending(Tail(placed), msg_id, items)

RECURSIVE SortDescending(_, _, _)
SortDescending(placed, order, items) ==
    IF order = <<>> THEN placed
    ELSE SortDescending(InsertDescending(placed, Head(order), items), Tail(order), items)

\* print_differences(differences): the ids in the order their entries are printed;
\* order is the iteration order of the dict.
print_differences(items, order) ==
    IF order = <<>> THEN <<>> ELSE SortDescending(<<>>, order, items)

(***************************************************************************)
(* analyze_binary_toggles (experiments/can_analyzer/can_action_analyzer.py)*)
(***************************************************************************)
ToggleEvent(timestamp, from_state, to_state, toggle_number) ==
    [timestamp |-> timestamp, from_state |-> from_state, to_state |-> to_state,
     toggle_number |-> toggle_number]

\* payload_timeline.sort(key=lambda x: x['timestamp']): a stable sort
RECURSIVE InsertByTimestamp(_, _)
InsertByTimestamp(placed, entry) ==
    IF placed = <<>> THEN <<entry>>
    ELSE IF entry.timestamp < Head(placed).timestamp
         THEN <<entry>> \o placed
         ELSE <<Head(placed)>> \o InsertByTimestamp(Tail(placed), entry)

RECURSIVE SortByTimestamp(_, _)
SortByTimestamp(placed, entries) ==
    IF entries = <<>> THEN placed
    ELSE SortByTimestamp(InsertByTimestamp(placed, Head(entries)), Tail(entries))

\* for i in range(1, len(payload_timeline)): if prev_payload != curr_payload: ...
RECURSIVE PayloadChanges(_, _)
PayloadChanges(payload_timeline, i) ==
    IF i > Len(payload_timeline) THEN <<>>
    ELSE LET prev_payload == payload_timeline[i - 1].payload
             curr_payload == payload_timeline[i].payload
         IN  (IF prev_payload # curr_payload
              THEN <<[timestamp |-> payload_timeline[i].timestamp,
                      from_payload |-> prev_payload,
                      to_payload |-> curr_payload]>>
              ELSE <<>>)
             \o PayloadChanges(payload_timeline, i + 1)

\* FirstChangeNear with a window that excludes its ends.
RECURSIVE FirstChangeInside(_, _)
FirstChangeInside(payload_changes, toggle_time) ==
    IF payload_changes = <<>> THEN <<>>
    ELSE IF Abs(Head(payload_changes).timestamp - toggle_time) < 2 * TicksPerSecond
         THEN <<Head(payload_changes)>>
         ELSE FirstChangeInside(Tail(payload_changes), toggle_time)

\* for change in payload_changes: if abs(change['timestamp'] - toggle_time) <= toggle_window:
\* the first such change, as a list of none or one
RECURSIVE FirstChangeNear(_, _)
FirstChangeNear(payload_changes, toggle_time) ==
    IF payload_changes = <<>> THEN <<>>
    ELSE IF Abs(Head(payload_changes).timestamp - toggle_time) <= 2 * TicksPerSecond
         THEN <<Head(payload_changes)>>
         ELSE FirstChangeNear(Tail(payload_changes), toggle_time)

\* ToggleCorrelations leaving the loop over the toggle events at the first match.
RECURSIVE ToggleCorrelationsFirstOnly(_, _)
ToggleCorrelationsFirstOnly(toggle_events, payload_changes) ==
    IF toggle_events = <<>> THEN <<>>
    ELSE LET toggle_event == Head(toggle_events)
             found == FirstChangeNear(payload_changes, toggle_event.timestamp)
         IN  IF found # <<>>
             THEN <<[toggle_event |-> toggle_event,
                     payload_change |-> found[1],
                     time_diff |-> found[1].timestamp - toggle_event.timestamp]>>
             ELSE ToggleCorrelationsFirstOnly(Tail(toggle_events), payload_changes)

\* ToggleCorrelations without the break: every change inside the window is a match.
RECURSIVE ToggleCorrelationsEveryChange(_, _)
ToggleCorrelationsEveryChange(toggle_events, payload_changes) ==
    IF toggle_events = <<>> THEN <<>>
    ELSE LET toggle_event == Head(toggle_events)
             near == SelectSeq(payload_changes,
                               LAMBDA change :
                                  Abs(change.timestamp - toggle_event.timestamp)
                                     <= 2 * TicksPerSecond)
         IN  [i \in DOMAIN near |->
                 [toggle_event |-> toggle_event,
                  payload_change |-> near[i],
                  time_diff |-> near[i].timestamp - toggle_event.timestamp]]
             \o ToggleCorrelationsEveryChange(Tail(toggle_events), payload_changes)

\* for toggle_event in toggle_events: ... toggle_correlations.append({...}); break
RECURSIVE ToggleCorrelations(_, _)
ToggleCorrelations(toggle_events, payload_changes) ==
    IF toggle_events = <<>> THEN <<>>
    ELSE LET toggle_event == Head(toggle_events)
             found == FirstChangeNear(payload_changes, toggle_event.timestamp)
         IN  (IF found # <<>>
              THEN <<[toggle_event |-> toggle_event,
                      payload_change |-> found[1],
                      time_diff |-> found[1].timestamp - toggle_event.timestamp]>>
              ELSE <<>>)
             \o ToggleCorrelations(Tail(toggle_events), payload_changes)

\* UniquePayloads adding only the payload a change leads to.
UniquePayloadsReached(payload_changes) ==
    { payload_changes[i].to_payload : i \in DOMAIN payload_changes }

\* UniquePayloads adding only the payload a change leaves.
UniquePayloadsLeft(payload_changes) ==
    { payload_changes[i].from_payload : i \in DOMAIN payload_changes }

\* unique_payloads.add(prev_payload); unique_payloads.add(curr_payload) at every change
UniquePayloads(payload_changes) ==
    { payload_changes[i].from_payload : i \in DOMAIN payload_changes }
    \cup { payload_changes[i].to_payload : i \in DOMAIN payload_changes }

\* StatePayloads without the test of the transition's direction.
StatePayloadsUndirected(toggle_correlations, initial_state, toggled_state) ==
    IF toggle_correlations # <<>>
    THEN (toggled_state :> toggle_correlations[1].payload_change.to_payload)
         @@ (initial_state :> toggle_correlations[1].payload_change.from_payload)
    ELSE <<>>

\* if toggle_correlations: first_correlation = toggle_correlations[0]; ...
\* A later assignment to state_payloads replaces an earlier one to the same label.
StatePayloads(toggle_correlations, initial_state, toggled_state) ==
    IF toggle_correlations # <<>>
    THEN LET first_correlation == toggle_correlations[1]
         IN  IF first_correlation.toggle_event.from_state = initial_state
             THEN (toggled_state :> first_correlation.payload_change.to_payload)
                  @@ (initial_state :> first_correlation.payload_change.from_payload)
             ELSE (initial_state :> first_correlation.payload_change.to_payload)
                  @@ (toggled_state :> first_correlation.payload_change.from_payload)
    ELSE <<>>

\* The body of analyze_binary_toggles' loop for one msg_id.
AnalyzeOneId(msg_list, toggle_events, initial_state, toggled_state) ==
    LET payload_timeline ==
            SortByTimestamp(<<>>, [i \in DOMAIN msg_list |->
                                      [timestamp |-> msg_list[i].timestamp,
                                       payload |-> msg_list[i].data]])
        payload_changes == PayloadChanges(payload_timeline, 2)
        unique_payloads == UniquePayloads(payload_changes)
        toggle_correlations == ToggleCorrelations(toggle_events, payload_changes)
        correlated_changes == Len(toggle_correlations)
        correlation_ratio ==
            IF toggle_events # <<>> THEN Rat(correlated_changes, Len(toggle_events))
            ELSE Rat(0, 1)
        \* correlation_ratio >= 0.6
        is_binary_toggle ==
            /\ Cardinality(unique_payloads) = 2
            /\ ~RatGreater(Rat(6, 10), correlation_ratio)
        scaled == Rat(correlation_ratio.num * 100, correlation_ratio.den)
        binary_confidence ==
            IF is_binary_toggle
            THEN (IF RatGreater(scaled, Rat(100, 1)) THEN Rat(100, 1) ELSE scaled)
            ELSE Rat(0, 1)
        state_payloads ==
            IF is_binary_toggle
            THEN StatePayloads(toggle_correlations, initial_state, toggled_state)
            ELSE <<>>
    IN  [is_binary_toggle |-> is_binary_toggle,
         binary_confidence |-> binary_confidence,
         unique_payloads |-> unique_payloads,
         payload_changes_count |-> Len(payload_changes),
         correlated_changes |-> correlated_changes,
         correlation_ratio |-> correlation_ratio,
         toggle_correlations |-> toggle_correlations,
         state_payloads |-> state_payloads,
         message_count |-> Len(msg_list)]

\* for msg_id, msg_list in messages_by_id.items(): what the loop body computed for
\* every msg_id, stored in toggle_analysis or not; nothing when the method returns
\* before the loop
AnalyzedIds(caps, action_name) ==
    IF action_name \notin DOMAIN caps THEN <<>>
    ELSE
    LET stored == caps[action_name]
    IN  IF stored = <<>> \/ "toggle_events" \notin Head(stored).attrs
        THEN <<>>
        ELSE [msg_id \in IdsOf(Tail(stored)) |->
                 AnalyzeOneId(ById(Tail(stored), msg_id), Head(stored).toggle_events,
                              Head(stored).initial_state, Head(stored).toggled_state)]

\* analyze_binary_toggles(action_name)
analyze_binary_toggles(caps, action_name) ==
    IF action_name \notin DOMAIN caps THEN NoneReturned
    ELSE
    LET stored == caps[action_name]
    IN  IF stored = <<>> \/ "toggle_events" \notin Head(stored).attrs
        THEN NoneReturned
        ELSE LET msgs == Tail(stored)
                 locals == AnalyzedIds(caps, action_name)
                 reported == { msg_id \in IdsOf(msgs) :
                                  \/ locals[msg_id].is_binary_toggle
                                  \/ locals[msg_id].correlated_changes > 0 }
             IN  Dict([msg_id \in reported |-> locals[msg_id]])

(***************************************************************************)
(* Captures and diff entries the analyzer is run on.                       *)
(***************************************************************************)
\* Largest number of received frames in a baseline or action capture.
MaxFrames == 2
\* Largest number of received frames in a toggle capture.
MaxToggleFrames == 3

\* 0x331 and 0x3B3
FrameIds == {817, 947}

FramePayloads == {<<0>>, <<1>>}

\* Frame timestamps of the baseline and action captures, in ticks.
FrameTicks == {0, 2, 5}

NonDecreasing(msgs) ==
    \A i \in 1..(Len(msgs) - 1) : msgs[i].timestamp <= msgs[i + 1].timestamp

\* The lists of at most n messages of a set, in the order they were received.
ReceivedLists(frames, n) ==
    UNION { { msgs \in [1..k -> frames] : NonDecreasing(msgs) } : k \in 0..n }

CaptureFrames ==
    { CanMessage(t, id, p) : t \in FrameTicks, id \in FrameIds, p \in FramePayloads }

\* action_timestamps of a multi-action capture: [0] + the times of the later prompts.
ActionTimestampLists == {<<0>>, <<0, 4>>, <<0, 4, 8>>}

BaselineCaptures == ReceivedLists(CaptureFrames, MaxFrames)

\* An action capture: the received frames, with the metadata message at its head when
\* the action was repeated (capture_messages inserts it into a non-empty capture).
ActionCaptures ==
    ReceivedLists(CaptureFrames, MaxFrames)
    \cup { <<ActionMetaMessage(ts)>> \o msgs :
              ts \in ActionTimestampLists,
              msgs \in ReceivedLists(CaptureFrames, MaxFrames) \ {<<>>} }

\* Toggle captures: frames of two ids with up to three payloads.
TogglePayloads == {<<0>>, <<1>>, <<2>>}

ToggleFrameTicks == {0, 6, 14}

ToggleFrames ==
    { CanMessage(t, id, p) : t \in ToggleFrameTicks, id \in FrameIds, p \in TogglePayloads }

\* capture_binary_toggle: the events alternate initial -> toggled, toggled -> initial,
\* toggle_number = (toggle_num // 2) + 1.
ToggleEventsAt(ticks, initial_state, toggled_state) ==
    [i \in DOMAIN ticks |->
        IF i % 2 = 1
        THEN ToggleEvent(ticks[i], initial_state, toggled_state, ((i - 1) \div 2) + 1)
        ELSE ToggleEvent(ticks[i], toggled_state, initial_state, ((i - 1) \div 2) + 1)]

ToggleEventTicks == {<<>>, <<4>>, <<4, 10>>, <<5, 10, 15>>, <<2, 4, 6, 8, 10>>}

\* The two descriptions the operator types at the prompts of capture_binary_toggle:
\* two different texts, or the same text twice (the Enter key alone, twice).
ToggleLabels == {<<"OFF", "ON">>, <<"", "">>}

\* A toggle capture: the metadata message, then the received frames; or a capture
\* without metadata.
ToggleCaptures ==
    { <<ToggleMetaMessage(ToggleEventsAt(ticks, labels[1], labels[2]),
                          labels[1], labels[2])>> \o msgs :
         ticks \in ToggleEventTicks,
         labels \in ToggleLabels,
         msgs \in ReceivedLists(ToggleFrames, MaxToggleFrames) }
    \cup ReceivedLists(ToggleFrames, 1)

\* A diff entry with the four fields _calculate_confidence and print_differences read.
MakeDiff(is_new, new_payloads, freq_change_pct, action_correlated) ==
    [is_new |-> is_new,
     base_count |-> IF is_new THEN 0 ELSE 1,
     action_count |-> 1,
     freq_change_pct |-> freq_change_pct,
     new_payloads |-> new_payloads,
     baseline_payloads |-> {},
     action_payloads |-> new_payloads,
     action_correlated |-> action_correlated]

\* Every combination of the four fields, for _calculate_confidence.
ScorePercents ==
    {Inf, Rat(-150, 1), Rat(-101, 1), Rat(-100, 1), Rat(-50, 1), Rat(0, 1), Rat(20, 1),
     Rat(50, 1), Rat(151, 3), Rat(100, 1), Rat(301, 3), Rat(250, 1)}

ScoreDiffs ==
    { MakeDiff(n, ps, pct, c) :
         n \in BOOLEAN, ps \in SUBSET TogglePayloads, pct \in ScorePercents, c \in BOOLEAN }

\* Entries compare_captures can return: a new id has no baseline frequency
\* (freq_change_pct = inf) and a new payload; another id has a finite frequency
\* change and is reported for that change or for a new payload.
PrintEntries ==
    { e \in { MakeDiff(n, ps, pct, c) :
                 n \in BOOLEAN, ps \in {{}, {<<0>>}, {<<0>>, <<1>>}},
                 pct \in {Inf, Rat(-50, 1), Rat(0, 1), Rat(25, 1)}, c \in BOOLEAN } :
         /\ e.is_new => (e.freq_change_pct = Inf /\ e.new_payloads # {})
         /\ ~e.is_new => /\ e.freq_change_pct # Inf
                         /\ \/ RatGreater(RatAbs(e.freq_change_pct), Rat(20, 1))
                            \/ e.new_payloads # {} }

PrintIds == {817, 947, 1084}

\* The dicts print_differences is called with.
PrintDicts ==
    UNION { [ids -> PrintEntries] : ids \in SUBSET PrintIds }

\* The orders a dict with these keys can be iterated in.
Orders(ids) ==
    { order \in [1..Cardinality(ids) -> ids] :
         \A i, j \in DOMAIN order : i # j => order[i] # order[j] }

NoDiff == MakeDiff(FALSE, {}, Rat(0, 1), FALSE)

AnalyzerIdle ==
    /\ captures = <<>>
    /\ analyzer_op = "idle"
    /\ compared = <<>>
    /\ differences = NoneReturned
    /\ toggle_analysis = NoneReturned
    /\ analyzed = <<>>
    /\ diff = NoDiff
    /\ score = 0
    /\ sorted_diffs = <<>>

(***************************************************************************)
(* Capturing, saving and loading (can_action_analyzer.py).  A capture name *)
(* and a file name are texts, written as the sequence of their pieces: "_" *)
(* and "." are pieces of their own, the other pieces hold neither of them, *)
(* so that "door_lock" is <<"door", "_", "lock">>.                         *)
(***************************************************************************)
Baseline == <<"baseline">>

\* capture_messages: self.captures[action_name] = messages, then the metadata message
\* is inserted at the head of that same list
capture_messages(action_name, repeat_count, received, action_timestamps) ==
    IF action_name # Baseline /\ repeat_count > 1 /\ received # <<>>
    THEN <<ActionMetaMessage(<<0>> \o action_timestamps)>> \o received
    ELSE received

\* capture_binary_toggle: if messages and toggle_events: messages.insert(0, meta_msg)
capture_binary_toggle(received, toggle_events, initial_state, toggled_state) ==
    IF received # <<>> /\ toggle_events # <<>>
    THEN <<ToggleMetaMessage(toggle_events, initial_state, toggled_state)>> \o received
    ELSE received

\* The keys save_capture writes for every message.
BaseKeys ==
    {"timestamp", "arbitration_id", "dlc", "data",
     "is_extended_id", "is_remote_frame", "is_error_frame"}

\* The keys save_capture writes when hasattr(msg, key).
MetaKeys ==
    {"action_timestamps", "toggle_events", "initial_state", "toggled_state",
     "capture_type"}

\* list(msg.data)
ListOfBytes(bytes) == [i \in 1..Len(bytes) |-> bytes[i]]

\* bytes(msg_data['data'])
BytesOfList(list) == [i \in 1..Len(list) |-> list[i]]

\* msg_dict of save_capture
MessageToDict(msg) ==
    [key \in BaseKeys \cup (msg.attrs \cap MetaKeys) |->
        IF key = "data" THEN ListOfBytes(msg.data) ELSE msg[key]]

\* serializable_msgs
CaptureToJson(msgs) == [i \in DOMAIN msgs |-> MessageToDict(msgs[i])]

\* MessageFromDict reading the seven base keys only.
MessageFromDictBase(msg_data) ==
    [CanMessage(msg_data["timestamp"], msg_data["arbitration_id"],
                BytesOfList(msg_data["data"]))
        EXCEPT !.dlc = msg_data["dlc"],
               !.is_extended_id = msg_data["is_extended_id"],
               !.is_remote_frame = msg_data["is_remote_frame"],
               !.is_error_frame = msg_data["is_error_frame"]]

\* load_capture: the Message-like object built from one msg_data
MessageFromDict(msg_data) ==
    [CanMessage(msg_data["timestamp"], msg_data["arbitration_id"],
                BytesOfList(msg_data["data"]))
        EXCEPT !.dlc = msg_data["dlc"],
               !.is_extended_id = msg_data["is_extended_id"],
               !.is_remote_frame = msg_data["is_remote_frame"],
               !.is_error_frame = msg_data["is_error_frame"],
               !.attrs = DOMAIN msg_data \cap MetaKeys,
               !.action_timestamps =
                   IF "action_timestamps" \in DOMAIN msg_data
                   THEN msg_data["action_timestamps"] ELSE @,
               !.toggle_events =
                   IF "toggle_events" \in DOMAIN msg_data
                   THEN msg_data["toggle_events"] ELSE @,
               !.initial_state =
                   IF "initial_state" \in DOMAIN msg_data
                   THEN msg_data["initial_state"] ELSE @,
               !.toggled_state =
                   IF "toggled_state" \in DOMAIN msg_data
                   THEN msg_data["toggled_state"] ELSE @,
               !.capture_type =
                   IF "capture_type" \in DOMAIN msg_data
                   THEN msg_data["capture_type"] ELSE @]

\* messages of load_capture
CaptureFromJson(json) == [i \in DOMAIN json |-> MessageFromDict(json[i])]

\* f"{timestamp}_{action_name}.json", timestamp being strftime("%Y%m%d_%H%M%S");
\* the directory is left out, os.path.basename removes it again
FileName(timestamp, action_name) ==
    timestamp \o <<"_">> \o action_name \o <<".", "json">>

Positions(text, sep) == { i \in DOMAIN text : text[i] = sep }

\* text.split(sep, 1)[1]: what follows the first sep (IndexError without a sep)
AfterFirst(text, sep) ==
    IF Positions(text, sep) = {} THEN RaisedFrom("IndexError")
    ELSE LET first == CHOOSE i \in Positions(text, sep) :
                         \A j \in Positions(text, sep) : i <= j
         IN  SubSeq(text, first + 1, Len(text))

\* text.rsplit(sep, 1)[0]: what precedes the last sep (the whole text without a sep)
BeforeLast(text, sep) ==
    IF Positions(text, sep) = {} THEN text
    ELSE LET last == CHOOSE i \in Positions(text, sep) :
                        \A j \in Positions(text, sep) : j <= i
         IN  SubSeq(text, 1, last - 1)

\* action_name = base.split('_', 1)[1].rsplit('.', 1)[0]
ActionNameOf(base) == BeforeLast(AfterFirst(base, "_"), ".")

(***************************************************************************)
(* Inputs of the capture, save and load calls.                             *)
(***************************************************************************)
\* Largest number of received frames in a capture that is saved.
MaxSaved == 2
\* Largest number of captures made in a session.
MaxCaptures == 1
\* Largest number of files in sessions_dir.
MaxFiles == 1

CaptureNames == {Baseline, <<"door", "_", "lock">>}

\* datetime.now().strftime("%Y%m%d_%H%M%S") at two moments
ClockTexts == {<<"20260101", "_", "120000">>, <<"20260101", "_", "120001">>}

\* A data frame, an extended remote frame (dlc 8 without data) and an error frame.
SavedFrames ==
    { CanMessage(1, 817, <<1, 2>>),
      [CanMessage(3, 947, <<>>)
          EXCEPT !.dlc = 8, !.is_extended_id = TRUE, !.is_remote_frame = TRUE],
      [CanMessage(3, 0, <<255>>) EXCEPT !.is_error_frame = TRUE] }

SavedLists == ReceivedLists(SavedFrames, MaxSaved)

\* The times of the prompts after the first one.
LaterActionTimestamps == {<<>>, <<4>>}

SavedToggleTicks == {<<>>, <<4>>, <<4, 10>>}

(***************************************************************************)
(* plot_message_timeline and what the analysis methods leave in            *)
(* self.captures (can_action_analyzer.py).                                 *)
(***************************************************************************)
\* sorted(...)[:5]: the first five ids; a capture of the model has fewer ids than that
FirstFive(ids) == ids

\* plot_message_timeline(action_name, msg_ids): the figure it saves as a png, that is
\* the ids it gives a row to, the number of points and the action lines; None for an
\* unknown capture; the exception of compare_captures when that call raises.
plot_message_timeline(caps, action_name, msg_ids) ==
    IF action_name \notin DOMAIN caps THEN NoneReturned
    ELSE
    LET stored == caps[action_name]
        multi == stored # <<>> /\ "action_timestamps" \in Head(stored).attrs
        action_timestamps == IF multi THEN Head(stored).action_timestamps ELSE <<>>
        msgs == IF multi THEN Tail(stored) ELSE stored
        use_diffs == msg_ids = {} /\ "baseline" \in DOMAIN caps
        diffs == compare_captures(caps, action_name, "baseline").differences
        chosen ==
            IF msg_ids # {} THEN msg_ids
            ELSE IF use_diffs /\ diffs.kind = "dict" /\ DOMAIN diffs.items # {}
                 THEN FirstFive(DOMAIN diffs.items)
                 ELSE FirstFive(IdsOf(msgs))
    IN  IF use_diffs /\ diffs.kind = "raised" THEN diffs
        ELSE [kind |-> "figure",
              items |-> chosen,
              exc |-> "",
              points |-> Cardinality({ i \in DOMAIN msgs : msgs[i].arbitration_id \in chosen }),
              action_timestamps |-> action_timestamps]

\* self.captures after compare_captures: action_messages is a copy of the stored
\* list, baseline_messages is read only, the groups are local dicts
StoredAfterCompare(caps, action_name, baseline_name) == caps

\* self.captures after analyze_binary_toggles: messages is a copy of the stored list
StoredAfterAnalyze(caps, action_name) == caps

\* StoredAfterPlot had the metadata message been deleted from the list in place.
StoredAfterPlotDeleted(caps, action_name) ==
    IF /\ action_name \in DOMAIN caps
       /\ caps[action_name] # <<>>
       /\ "action_timestamps" \in Head(caps[action_name]).attrs
    THEN [caps EXCEPT ![action_name] = Tail(@)]
    ELSE caps

\* self.captures after plot_message_timeline: messages is the stored list itself, and
\* messages = messages[1:] binds the name to a new list; the nested compare_captures
StoredAfterPlot(caps, action_name) ==
    IF action_name \in DOMAIN caps /\ "baseline" \in DOMAIN caps
    THEN StoredAfterCompare(caps, action_name, "baseline")
    ELSE caps

(***************************************************************************)
(* Inputs of an analysis session.                                          *)
(***************************************************************************)
SessionBaselines ==
    { <<CanMessage(0, 817, <<0>>)>>,
      <<CanMessage(2, 817, <<0>>), CanMessage(5, 947, <<0>>)>> }

SessionActions ==
    { <<>>,
      <<CanMessage(2, 817, <<1>>)>>,
      <<ActionMetaMessage(<<0, 4>>), CanMessage(2, 817, <<0>>),
        CanMessage(5, 1084, <<1>>)>> }

SessionToggles ==
    { <<CanMessage(2, 947, <<0>>)>>,
      <<ToggleMetaMessage(ToggleEventsAt(<<4>>, "OFF", "ON"), "OFF", "ON"),
        CanMessage(0, 947, <<0>>), CanMessage(6, 947, <<1>>)>> }

\* The captures of a session, with or without a baseline.
SessionCaptures ==
    { ("action" :> a) @@ ("toggle" :> t) : a \in SessionActions, t \in SessionToggles }
    \cup { ("baseline" :> b) @@ ("action" :> a) @@ ("toggle" :> t) :
              b \in SessionBaselines, a \in SessionActions, t \in SessionToggles }

\* The capture names given to the analysis methods; "lost" names no capture.
SessionNames == {"action", "toggle", "lost"}

\* msg_ids given to plot_message_timeline; {} stands for None and for an empty list.
SessionMsgIds == {{}, {947}}

(***************************************************************************)
(* EmbeddedCANLogger (message_watcher/can_embedded_logger.py): the         *)
(* listener thread and the main thread of run().                           *)
(***************************************************************************)
\* self.logger_config, in the order sorted(self.logger_config.keys()) visits it; the
\* model watches the first and the third of its four messages
logger_config ==
    << [name |-> "BCM_Lamp_Stat_FD1",
        signals |-> <<"PudLamp_D_Rq", "Illuminated_Entry_Stat", "Dr_Courtesy_Light_Stat">>],
       [name |-> "Locking_Systems_2_FD1", signals |-> <<"Veh_Lock_Status">>] >>

ConfigNames == { logger_config[i].name : i \in DOMAIN logger_config }

ConfigOf(msg_name) ==
    logger_config[CHOOSE i \in DOMAIN logger_config : logger_config[i].name = msg_name]

\* _initialize_message_tracking: self.message_ids[msg.frame_id] = msg_name
message_ids ==
    [frame_id \in { _build_embedded_database._message_dict[name].frame_id :
                       name \in ConfigNames } |->
        CHOOSE name \in ConfigNames :
           _build_embedded_database._message_dict[name].frame_id = frame_id]

\* _initialize_message_tracking: self.message_data[msg_name][signal_name] = None
InitialMessageData ==
    [msg_name \in ConfigNames |->
        [signal_name \in { ConfigOf(msg_name).signals[i] :
                              i \in DOMAIN ConfigOf(msg_name).signals } |-> NoResult]]

\* Message.decode: result[signal.name] = signal.decode(data) for every signal
MessageDecode(dbc_message, bytes) ==
    [signal_name \in { dbc_message.signals[i].name : i \in DOMAIN dbc_message.signals } |->
        SignalDecode(
            dbc_message.signals[CHOOSE i \in DOMAIN dbc_message.signals :
                                   dbc_message.signals[i].name = signal_name],
            bytes).result]

NoDecodedData == [returned |-> "None", message_name |-> "", signals |-> <<>>]

\* decode_message(msg): None for an id that is not watched, else the message name
\* and the configured signals, in the order of the configuration
decode_message(m) ==
    IF m.arbitration_id \notin DOMAIN message_ids THEN NoDecodedData
    ELSE LET msg_name == message_ids[m.arbitration_id]
             dbc_message == _build_embedded_database._frame_id_dict[m.arbitration_id]
             decoded_signals == MessageDecode(dbc_message, m.data)
             wanted == SelectSeq(ConfigOf(msg_name).signals,
                                 LAMBDA signal_name : signal_name \in DOMAIN decoded_signals)
         IN  [returned |-> "dict",
              message_name |-> msg_name,
              signals |-> [i \in DOMAIN wanted |->
                              [signal_name |-> wanted[i],
                               value |-> decoded_signals[wanted[i]]]]]

\* with self.data_lock: entered at once whoever holds the lock.
LockIgnored(holder) == TRUE

\* with self.data_lock: the thread enters when the lock is free
LockFree(holder) == holder = "free"

\* while True:
LoopForever(flag) == TRUE

\* while self.running:
LoopCondition(flag) == flag

\* log_current_state: the (message, signal) pairs in the order they are read
LoggedSignals ==
    LET RECURSIVE Flatten(_)
        Flatten(i) ==
            IF i > Len(logger_config) THEN <<>>
            ELSE [j \in DOMAIN logger_config[i].signals |->
                     [msg_name |-> logger_config[i].name,
                      signal_name |-> logger_config[i].signals[j]]]
                 \o Flatten(i + 1)
    IN  Flatten(1)

NoMessage == CanMessage(0, 0, <<>>)

NoStats == [total_messages |-> 0, decoded_messages |-> 0, log_entries |-> 0]

(***************************************************************************)
(* Inputs of the logger.                                                   *)
(***************************************************************************)
\* Largest number of frames the listener receives.
MaxMessages == 3
\* Largest number of lines log_current_state prints.
MaxLogEntries == 2

\* The history counter of receive calls after the stop stays at this value once there.
MaxCounted == 2

\* One more receive call has returned: counted when the stop flag was already cleared.
CountReceive(flag, count) ==
    IF flag \/ count >= MaxCounted THEN count ELSE count + 1

\* Two frames of BCM_Lamp_Stat_FD1 (0x3C3) that differ in all three signals, and a
\* frame with an id that is not watched.
WatchedFrames ==
    { CanMessage(0, 963, <<0, 32, 0, 0, 0, 0, 128, 2>>),
      CanMessage(0, 963, <<0, 16, 0, 0, 0, 0, 64, 1>>),
      CanMessage(0, 291, <<1>>) }

(***************************************************************************)
(* CANDecoder (can_analyzer/can_decoder.py): change detection.             *)
(***************************************************************************)
\* has_message_changed storing the payload only the first time an id is seen.
has_message_changed_first_only(store, m) ==
    IF m.arbitration_id \notin DOMAIN store
    THEN [changed |-> TRUE, store |-> DictSet(store, m.arbitration_id, m.data)]
    ELSE [changed |-> store[m.arbitration_id] # m.data, store |-> store]

\* has_message_changed(msg): the returned bool and self.last_message_data after it
has_message_changed(store, m) ==
    IF m.arbitration_id \notin DOMAIN store
    THEN [changed |-> TRUE, store |-> DictSet(store, m.arbitration_id, m.data)]
    ELSE IF store[m.arbitration_id] # m.data
         THEN [changed |-> TRUE, store |-> DictSet(store, m.arbitration_id, m.data)]
         ELSE [changed |-> FALSE, store |-> store]

\* Largest number of messages the decoder receives.
MaxDecoded == 4

DecodedFrames ==
    { CanMessage(0, id, bytes) : id \in {817, 947}, bytes \in {<<0>>, <<1>>} }

(***************************************************************************)
(* The state each component is in when a specification does not run it.    *)
(***************************************************************************)
NoDescriptor == Descriptor(0, 1, "big_endian", Plain)

NoPersistOp == [op |-> "idle"]

PersistIdle ==
    /\ files = <<>>
    /\ saved = <<>>
    /\ persist_op = NoPersistOp

PlotIdle == plotted = NoneReturned

\* EmbeddedCANLogger.__init__
WatcherIdle ==
    /\ running = FALSE
    /\ main_pc = "start"
    /\ returned = "nothing"
    /\ listener_pc = "not started"
    /\ recv_msg = NoMessage
    /\ pending = <<>>
    /\ data_lock = "free"
    /\ message_data = InitialMessageData
    /\ message_timestamps = [msg_name \in ConfigNames |-> FALSE]
    /\ log_entries = <<>>
    /\ log_line = <<>>
    /\ stats = NoStats
    /\ bus = "closed"
    /\ error_printed = FALSE
    /\ heard = {}
    /\ recv_after_stop = 0

\* CANDecoder.__init__ without --changes-only
DecoderIdle ==
    /\ changes_only = FALSE
    /\ last_message_data = <<>>
    /\ run_received = <<>>
    /\ shown = <<>>
    /\ log_file = <<>>
    /\ indicators = <<>>

\* capture_messages has not been called.
CaptureIdle ==
    /\ cm_pc = "not called"
    /\ cm_args = [duration |-> 0, action_name |-> Baseline, repeat_count |-> 1,
                  repeat_interval |-> 0]
    /\ cm_clock = 0
    /\ cm_messages = <<>>
    /\ cm_action_timestamps = <<>>
    /\ cm_next_action_time = 0
    /\ cm_action_count = 0
    /\ cm_result = <<>>

\* capture_binary_toggle has not been called.
ToggleCaptureIdle ==
    /\ bt_pc = "not called"
    /\ bt_args = [toggle_count |-> 0, state_duration |-> 0, initial_state |-> "",
                  toggled_state |-> ""]
    /\ bt_clock = 0
    /\ bt_toggle_num = 0
    /\ bt_state_end_time = 0
    /\ bt_current_state = ""
    /\ bt_toggle_events = <<>>
    /\ bt_messages = <<>>
    /\ bt_interrupted = FALSE
    /\ bt_result = <<>>

AuxIdle ==
    PersistIdle /\ PlotIdle /\ WatcherIdle /\ DecoderIdle /\ CaptureIdle /\ ToggleCaptureIdle

CodecIdle ==
    /\ data = <<>>
    /\ sig = NoDescriptor
    /\ op = "idle"
    /\ extracted = 0
    /\ raw_value = 0
    /\ result = NoResult
    /\ can_id = 0
    /\ decoded = NotDecoded

\* The database after EmbeddedDBCDatabase().
DatabaseInit ==
    /\ messages = _build_embedded_database.messages
    /\ _message_dict = _build_embedded_database._message_dict
    /\ _frame_id_dict = _build_embedded_database._frame_id_dict

\* No database object exists (the standalone tools build none).
DatabaseIdle ==
    /\ messages = <<>>
    /\ _message_dict = <<>>
    /\ _frame_id_dict = <<>>

ValidateIdle ==
    /\ dbc = <<>>
    /\ validation = "not run"

(***************************************************************************)
(* The codec as a state machine: a payload and a descriptor are given, one *)
(* of the decoders is applied to them.                                     *)
(***************************************************************************)
CodecInit ==
    /\ data \in Payloads
    /\ sig \in Descriptors
    /\ op = "idle"
    /\ extracted = 0
    /\ raw_value = 0
    /\ result = NoResult
    /\ can_id = 0
    /\ decoded = NotDecoded
    /\ DatabaseIdle
    /\ ValidateIdle
    /\ AnalyzerIdle
    /\ AuxIdle

\* Signal.decode(data) of can_embedded_logger.py
Decode ==
    /\ op = "idle"
    /\ LET r == SignalDecode(sig, data)
       IN  /\ extracted' = r.extracted
           /\ raw_value' = r.raw_value
           /\ result' = r.result
    /\ op' = "Signal.decode"
    /\ UNCHANGED <<data, sig, can_id, decoded, dbVars, validateVars, analyzerVars, auxVars>>

\* CANStandaloneLogger.extract_signal(data, start_bit, length, scale, offset, signed, enum_values)
ExtractSignal ==
    /\ op = "idle"
    /\ sig.byte_order = "big_endian"
    /\ LET r == extract_signal(data, sig.start, sig.length, sig.scale, sig.offset,
                               sig.is_signed, sig.choices)
       IN  /\ extracted' = r.extracted
           /\ raw_value' = r.raw_value
           /\ result' = r.result
    /\ op' = "extract_signal"
    /\ UNCHANGED <<data, sig, can_id, decoded, dbVars, validateVars, analyzerVars, auxVars>>

\* experiments EmbeddedCANLogger.extract_signal_value(data, start_bit, length)
ExtractSignalValue ==
    /\ op = "idle"
    /\ sig.byte_order = "big_endian"
    /\ result' = extract_signal_value(data, sig.start, sig.length)
    /\ op' = "extract_signal_value"
    /\ UNCHANGED <<data, sig, extracted, raw_value, can_id, decoded, dbVars, validateVars, analyzerVars, auxVars>>

CodecNext == Decode \/ ExtractSignal \/ ExtractSignalValue

CodecSpec == CodecInit /\ [][CodecNext]_vars

(***************************************************************************)
(* decode_can_message as a state machine: a frame (can_id, data) is given  *)
(* and decoded with the hard-coded CAN_MESSAGES.                           *)
(***************************************************************************)
MessageInit ==
    /\ data \in Payloads
    /\ sig = NoDescriptor
    /\ op = "idle"
    /\ extracted = 0
    /\ raw_value = 0
    /\ result = NoResult
    /\ can_id = 0
    /\ decoded = NotDecoded
    /\ DatabaseIdle
    /\ ValidateIdle
    /\ AnalyzerIdle
    /\ AuxIdle

\* experiments EmbeddedCANLogger.decode_can_message(can_id, data)
DecodeCanMessage ==
    /\ op = "idle"
    /\ \E id \in CanIds :
          /\ can_id' = id
          /\ decoded' = decode_can_message(id, data)
    /\ op' = "decode_can_message"
    /\ UNCHANGED <<data, sig, extracted, raw_value, result, dbVars, validateVars, analyzerVars, auxVars>>

MessageNext == DecodeCanMessage

MessageSpec == MessageInit /\ [][MessageNext]_vars

(***************************************************************************)
(* The message database as a state machine: built by __init__, then        *)
(* add_message is called with further messages.                            *)
(***************************************************************************)
DbInit ==
    /\ DatabaseInit
    /\ CodecIdle
    /\ ValidateIdle
    /\ AnalyzerIdle
    /\ AuxIdle

\* EmbeddedDBCDatabase.add_message(message)
AddMessage ==
    /\ Len(messages) < Len(_build_embedded_database.messages) + MaxAdded
    /\ \E message \in MessageInputs :
          LET db == add_message([messages |-> messages, _message_dict |-> _message_dict,
                                 _frame_id_dict |-> _frame_id_dict], message)
          IN  /\ messages' = db.messages
              /\ _message_dict' = db._message_dict
              /\ _frame_id_dict' = db._frame_id_dict
    /\ UNCHANGED <<codecVars, validateVars, analyzerVars, auxVars>>

DbNext == AddMessage

DbSpec == DbInit /\ [][DbNext]_vars

(***************************************************************************)
(* The validator as a state machine: a file is given, validate_dbc_file    *)
(* runs on it once.                                                        *)
(***************************************************************************)
ValidateInit ==
    /\ dbc \in DbcFiles
    /\ validation = "not run"
    /\ CodecIdle
    /\ DatabaseIdle
    /\ AnalyzerIdle
    /\ AuxIdle

\* validate_dbc_file(dbc_path)
ValidateDbcFile ==
    /\ validation = "not run"
    /\ \E parsed \in BOOLEAN :
          validation' = IF validate_dbc_file(parsed, dbc) THEN "passed" ELSE "failed"
    /\ UNCHANGED <<dbc, codecVars, dbVars, analyzerVars, auxVars>>

ValidateNext == ValidateDbcFile

ValidateSpec == ValidateInit /\ [][ValidateNext]_vars

(***************************************************************************)
(* compare_captures as a state machine: a baseline and an action capture   *)
(* are held in self.captures, compare_captures runs on them once.          *)
(***************************************************************************)
CompareInit ==
    /\ \E baseline \in BaselineCaptures, action \in ActionCaptures :
          captures = [name \in {"baseline", "action"} |->
                         IF name = "baseline" THEN baseline ELSE action]
    /\ analyzer_op = "idle"
    /\ compared = <<>>
    /\ differences = NoneReturned
    /\ toggle_analysis = NoneReturned
    /\ analyzed = <<>>
    /\ diff = NoDiff
    /\ score = 0
    /\ sorted_diffs = <<>>
    /\ CodecIdle
    /\ DatabaseIdle
    /\ ValidateIdle
    /\ AuxIdle

\* differences = analyzer.compare_captures(action_name, baseline_name)
CompareCaptures ==
    /\ analyzer_op = "idle"
    /\ LET r == compare_captures(captures, "action", "baseline")
       IN  /\ differences' = r.differences
           /\ compared' = r.compared
    /\ analyzer_op' = "compare_captures"
    /\ UNCHANGED <<captures, toggle_analysis, analyzed, diff, score, sorted_diffs,
                   codecVars, dbVars, validateVars, auxVars>>

CompareNext == CompareCaptures

CompareSpec == CompareInit /\ [][CompareNext]_vars

(***************************************************************************)
(* analyze_binary_toggles as a state machine.                              *)
(***************************************************************************)
ToggleInit ==
    /\ \E toggle \in ToggleCaptures : captures = [name \in {"toggle"} |-> toggle]
    /\ analyzer_op = "idle"
    /\ compared = <<>>
    /\ differences = NoneReturned
    /\ toggle_analysis = NoneReturned
    /\ analyzed = <<>>
    /\ diff = NoDiff
    /\ score = 0
    /\ sorted_diffs = <<>>
    /\ CodecIdle
    /\ DatabaseIdle
    /\ ValidateIdle
    /\ AuxIdle

\* analysis = analyzer.analyze_binary_toggles(action_name)
AnalyzeBinaryToggles ==
    /\ analyzer_op = "idle"
    /\ toggle_analysis' = analyze_binary_toggles(captures, "toggle")
    /\ analyzed' = AnalyzedIds(captures, "toggle")
    /\ analyzer_op' = "analyze_binary_toggles"
    /\ UNCHANGED <<captures, compared, differences, diff, score, sorted_diffs,
                   codecVars, dbVars, validateVars, auxVars>>

ToggleNext == AnalyzeBinaryToggles

ToggleSpec == ToggleInit /\ [][ToggleNext]_vars

(***************************************************************************)
(* _calculate_confidence as a state machine: a diff entry is given, the    *)
(* score is computed from it.                                              *)
(***************************************************************************)
ScoreInit ==
    /\ diff \in ScoreDiffs
    /\ score = 0
    /\ captures = <<>>
    /\ analyzer_op = "idle"
    /\ compared = <<>>
    /\ differences = NoneReturned
    /\ toggle_analysis = NoneReturned
    /\ analyzed = <<>>
    /\ sorted_diffs = <<>>
    /\ CodecIdle
    /\ DatabaseIdle
    /\ ValidateIdle
    /\ AuxIdle

\* self._calculate_confidence(diff)
CalculateConfidence ==
    /\ analyzer_op = "idle"
    /\ score' = _calculate_confidence(diff)
    /\ analyzer_op' = "_calculate_confidence"
    /\ UNCHANGED <<captures, compared, differences, toggle_analysis, analyzed, diff, sorted_diffs,
                   codecVars, dbVars, validateVars, auxVars>>

ScoreNext == CalculateConfidence

ScoreSpec == ScoreInit /\ [][ScoreNext]_vars

(***************************************************************************)
(* print_differences as a state machine: a dict of diff entries is given   *)
(* and listed.                                                             *)
(***************************************************************************)
PrintInit ==
    /\ \E items \in PrintDicts : differences = Dict(items)
    /\ sorted_diffs = <<>>
    /\ captures = <<>>
    /\ analyzer_op = "idle"
    /\ compared = <<>>
    /\ toggle_analysis = NoneReturned
    /\ analyzed = <<>>
    /\ diff = NoDiff
    /\ score = 0
    /\ CodecIdle
    /\ DatabaseIdle
    /\ ValidateIdle
    /\ AuxIdle

\* analyzer.print_differences(differences)
PrintDifferences ==
    /\ analyzer_op = "idle"
    /\ \E order \in Orders(DOMAIN differences.items) :
          sorted_diffs' = print_differences(differences.items, order)
    /\ analyzer_op' = "print_differences"
    /\ UNCHANGED <<captures, compared, differences, toggle_analysis, analyzed, diff, score,
                   codecVars, dbVars, validateVars, auxVars>>

PrintNext == PrintDifferences

PrintSpec == PrintInit /\ [][PrintNext]_vars

(***************************************************************************)
(* A session that captures, saves captures to sessions_dir and loads them. *)
(***************************************************************************)
PersistInit ==
    /\ AnalyzerIdle
    /\ PersistIdle
    /\ PlotIdle
    /\ WatcherIdle
    /\ DecoderIdle
    /\ CaptureIdle
    /\ ToggleCaptureIdle
    /\ CodecIdle
    /\ DatabaseIdle
    /\ ValidateIdle

\* analyzer.capture_messages(duration, action_name, repeat_count=..., ...)
CaptureMessages ==
    \E action_name \in CaptureNames, repeat_count \in {1, 2}, received \in SavedLists,
       action_timestamps \in LaterActionTimestamps :
        /\ Cardinality(DOMAIN captures \cup {action_name}) <= MaxCaptures
        /\ (repeat_count = 1 \/ action_name = Baseline) => action_timestamps = <<>>
        /\ captures' =
              (action_name :> capture_messages(action_name, repeat_count, received,
                                               action_timestamps))
              @@ captures
        /\ persist_op' = [op |-> "capture_messages", action_name |-> action_name]
        /\ UNCHANGED <<files, saved, analyzer_op, compared, differences, toggle_analysis, analyzed,
                       diff, score, sorted_diffs, codecVars, dbVars, validateVars,
                       plotVars, watcherVars, decoderVars, captureVars, toggleVars>>

\* analyzer.capture_binary_toggle(action_name, ...)
CaptureBinaryToggle ==
    \E action_name \in CaptureNames, received \in SavedLists,
       ticks \in SavedToggleTicks, labels \in ToggleLabels :
        /\ Cardinality(DOMAIN captures \cup {action_name}) <= MaxCaptures
        /\ captures' =
              (action_name :>
                  capture_binary_toggle(received,
                                        ToggleEventsAt(ticks, labels[1], labels[2]),
                                        labels[1], labels[2]))
              @@ captures
        /\ persist_op' = [op |-> "capture_binary_toggle", action_name |-> action_name]
        /\ UNCHANGED <<files, saved, analyzer_op, compared, differences, toggle_analysis, analyzed,
                       diff, score, sorted_diffs, codecVars, dbVars, validateVars,
                       plotVars, watcherVars, decoderVars, captureVars, toggleVars>>

\* analyzer.save_capture(action_name)
SaveCapture ==
    \E action_name \in CaptureNames, timestamp \in ClockTexts :
        /\ Cardinality(DOMAIN files \cup {FileName(timestamp, action_name)}) <= MaxFiles
        /\ IF action_name \notin DOMAIN captures
           THEN /\ persist_op' = [op |-> "save_capture", action_name |-> action_name,
                                  written |-> FALSE]
                /\ UNCHANGED <<files, saved>>
           ELSE LET filename == FileName(timestamp, action_name)
                IN  /\ files' = (filename :> CaptureToJson(captures[action_name]))
                                @@ files
                    /\ saved' = (filename :> [action_name |-> action_name,
                                              messages |-> captures[action_name]])
                                @@ saved
                    /\ persist_op' = [op |-> "save_capture",
                                      action_name |-> action_name, written |-> TRUE]
        /\ UNCHANGED <<analyzerVars, codecVars, dbVars, validateVars,
                       plotVars, watcherVars, decoderVars, captureVars, toggleVars>>

\* analyzer.load_capture(full_path)
LoadCapture ==
    \E filename \in DOMAIN files :
        LET action_name == ActionNameOf(filename)
        IN  /\ captures' = (action_name :> CaptureFromJson(files[filename])) @@ captures
            /\ persist_op' = [op |-> "load_capture", filename |-> filename,
                              returned |-> action_name]
            /\ UNCHANGED <<files, saved, analyzer_op, compared, differences,
                           toggle_analysis, analyzed, diff, score, sorted_diffs,
                           codecVars, dbVars, validateVars,
                       plotVars, watcherVars, decoderVars, captureVars, toggleVars>>

PersistNext ==
    \/ CaptureMessages
    \/ CaptureBinaryToggle
    \/ SaveCapture
    \/ LoadCapture

PersistSpec == PersistInit /\ [][PersistNext]_vars

(***************************************************************************)
(* An analysis session: any sequence of calls of the analysis methods on   *)
(* the stored captures.                                                    *)
(***************************************************************************)
SessionInit ==
    /\ captures \in SessionCaptures
    /\ analyzer_op = "idle"
    /\ compared = <<>>
    /\ differences = NoneReturned
    /\ toggle_analysis = NoneReturned
    /\ analyzed = <<>>
    /\ diff = NoDiff
    /\ score = 0
    /\ sorted_diffs = <<>>
    /\ CodecIdle
    /\ DatabaseIdle
    /\ ValidateIdle
    /\ AuxIdle

\* differences = analyzer.compare_captures(action_name)
CallCompareCaptures ==
    \E action_name \in SessionNames :
        /\ LET r == compare_captures(captures, action_name, "baseline")
           IN  /\ differences' = r.differences
               /\ compared' = r.compared
        /\ captures' = StoredAfterCompare(captures, action_name, "baseline")
        /\ analyzer_op' = "compare_captures"
        /\ UNCHANGED <<toggle_analysis, analyzed, diff, score, sorted_diffs,
                       codecVars, dbVars, validateVars, auxVars>>

\* analysis = analyzer.analyze_binary_toggles(action_name)
CallAnalyzeBinaryToggles ==
    \E action_name \in SessionNames :
        /\ toggle_analysis' = analyze_binary_toggles(captures, action_name)
        /\ analyzed' = AnalyzedIds(captures, action_name)
        /\ captures' = StoredAfterAnalyze(captures, action_name)
        /\ analyzer_op' = "analyze_binary_toggles"
        /\ UNCHANGED <<compared, differences, diff, score, sorted_diffs,
                       codecVars, dbVars, validateVars, auxVars>>

\* analyzer.print_differences(differences), of the value compare_captures returned
CallPrintDifferences ==
    /\ differences.kind # "raised"
    /\ \E order \in Orders(DOMAIN differences.items) :
          sorted_diffs' = print_differences(differences.items, order)
    /\ analyzer_op' = "print_differences"
    /\ UNCHANGED <<captures, compared, differences, toggle_analysis, analyzed, diff, score,
                   codecVars, dbVars, validateVars, auxVars>>

\* analyzer.plot_message_timeline(action_name, msg_ids)
CallPlotMessageTimeline ==
    \E action_name \in SessionNames, msg_ids \in SessionMsgIds :
        /\ plotted' = plot_message_timeline(captures, action_name, msg_ids)
        /\ captures' = StoredAfterPlot(captures, action_name)
        /\ analyzer_op' = "plot_message_timeline"
        /\ UNCHANGED <<compared, differences, toggle_analysis, analyzed, diff, score, sorted_diffs,
                       codecVars, dbVars, validateVars,
                       persistVars, watcherVars, decoderVars, captureVars, toggleVars>>

SessionNext ==
    \/ CallCompareCaptures
    \/ CallAnalyzeBinaryToggles
    \/ CallPrintDifferences
    \/ CallPlotMessageTimeline

SessionSpec == SessionInit /\ [][SessionNext]_vars

(***************************************************************************)
(* EmbeddedCANLogger.run(): the main thread logs the current state every   *)
(* log_interval, the listener thread receives, decodes and stores.  Every  *)
(* action is one step of one thread.                                       *)
(***************************************************************************)
WatcherInit ==
    /\ WatcherIdle
    /\ DecoderIdle
    /\ PersistIdle
    /\ PlotIdle
    /\ CaptureIdle
    /\ ToggleCaptureIdle
    /\ AnalyzerIdle
    /\ CodecIdle
    /\ DatabaseIdle
    /\ ValidateIdle

WatcherOthers ==
    <<codecVars, dbVars, validateVars, analyzerVars, persistVars, plotVars, decoderVars,
      captureVars, toggleVars>>

\* run(): connect_can(), self.running = True, listener_thread.start(), log_header()
RunStart ==
    /\ main_pc = "start"
    /\ \E connected \in BOOLEAN :
          IF connected
          THEN /\ bus' = "open"
               /\ running' = TRUE
               /\ listener_pc' = "check"
               /\ main_pc' = "log"
               /\ UNCHANGED returned
          ELSE /\ returned' = "False"
               /\ main_pc' = "returned"
               /\ UNCHANGED <<bus, running, listener_pc>>
    /\ UNCHANGED <<recv_msg, pending, data_lock, message_data, message_timestamps,
                   log_entries, log_line, stats, error_printed, heard, recv_after_stop,
                   WatcherOthers>>

\* log_current_state: log_entries = []; with self.data_lock:
LogAcquire ==
    /\ main_pc = "log"
    /\ stats.log_entries < MaxLogEntries
    /\ LockFree(data_lock)
    /\ data_lock' = "reader"
    /\ log_entries' = <<>>
    /\ main_pc' = "reading"
    /\ UNCHANGED <<running, returned, listener_pc, recv_msg, pending, message_data,
                   message_timestamps, log_line, stats, bus, error_printed, heard,
                   recv_after_stop, WatcherOthers>>

\* log_current_state: value = self.message_data[msg_name][signal_name]; append
LogRead ==
    /\ main_pc = "reading"
    /\ Len(log_entries) < Len(LoggedSignals)
    /\ LET next == LoggedSignals[Len(log_entries) + 1]
       IN  log_entries' =
              Append(log_entries,
                     [msg_name |-> next.msg_name, signal_name |-> next.signal_name,
                      value |-> message_data[next.msg_name][next.signal_name]])
    /\ UNCHANGED <<running, main_pc, returned, listener_pc, recv_msg, pending, data_lock,
                   message_data, message_timestamps, log_line, stats, bus,
                   error_printed, heard, recv_after_stop, WatcherOthers>>

\* log_current_state: the with block ends; print(log_line); stats['log_entries'] += 1
LogRelease ==
    /\ main_pc = "reading"
    /\ Len(log_entries) = Len(LoggedSignals)
    /\ data_lock' = "free"
    /\ log_line' = log_entries
    /\ stats' = [stats EXCEPT !.log_entries = @ + 1]
    /\ main_pc' = "sleep"
    /\ UNCHANGED <<running, returned, listener_pc, recv_msg, pending, message_data,
                   message_timestamps, log_entries, bus, error_printed, heard,
                   recv_after_stop, WatcherOthers>>

\* time.sleep(self.log_interval), then the next round of while True
LogSleep ==
    /\ main_pc = "sleep"
    /\ main_pc' = "log"
    /\ UNCHANGED <<running, returned, listener_pc, recv_msg, pending, data_lock,
                   message_data, message_timestamps, log_entries, log_line, stats, bus,
                   error_printed, heard, recv_after_stop, WatcherOthers>>

\* except KeyboardInterrupt: ... finally: self.running = False (a with block that is
\* left by the exception releases the lock)
KeyboardInterrupt ==
    /\ main_pc \in {"log", "reading", "sleep"}
    /\ running' = FALSE
    /\ data_lock' = IF main_pc = "reading" THEN "free" ELSE data_lock
    /\ main_pc' = "summary"
    /\ UNCHANGED <<returned, listener_pc, recv_msg, pending, message_data,
                   message_timestamps, log_entries, log_line, stats, bus,
                   error_printed, heard, recv_after_stop, WatcherOthers>>

\* finally: the summary, self.bus.shutdown(); return True
RunShutdown ==
    /\ main_pc = "summary"
    /\ bus' = "shutdown"
    /\ returned' = "True"
    /\ main_pc' = "returned"
    /\ UNCHANGED <<running, listener_pc, recv_msg, pending, data_lock, message_data,
                   message_timestamps, log_entries, log_line, stats, error_printed,
                   heard, recv_after_stop, WatcherOthers>>

\* message_listener: while self.running:
ListenerCheck ==
    /\ listener_pc = "check"
    /\ listener_pc' = IF LoopCondition(running) THEN "recv" ELSE "done"
    /\ UNCHANGED <<running, main_pc, returned, recv_msg, pending, data_lock, message_data,
                   message_timestamps, log_entries, log_line, stats, bus,
                   error_printed, heard, recv_after_stop, WatcherOthers>>

\* msg = self.bus.recv(timeout=1.0) returns a frame: the counters, decode_message
ListenerFrame ==
    /\ listener_pc = "recv"
    /\ bus = "open"
    /\ stats.total_messages < MaxMessages
    /\ \E frame \in WatchedFrames :
          /\ recv_msg' = frame
          /\ heard' = heard \cup {frame}
          /\ IF decode_message(frame).returned = "dict"
             THEN /\ stats' = [stats EXCEPT !.total_messages = @ + 1,
                                            !.decoded_messages = @ + 1]
                  /\ listener_pc' = "update"
             ELSE /\ stats' = [stats EXCEPT !.total_messages = @ + 1]
                  /\ listener_pc' = "check"
    /\ recv_after_stop' = CountReceive(running, recv_after_stop)
    /\ UNCHANGED <<running, main_pc, returned, pending, data_lock, message_data,
                   message_timestamps, log_entries, log_line, bus, error_printed,
                   WatcherOthers>>

\* self.bus.recv(timeout=1.0) returns None after the timeout
ListenerTimeout ==
    /\ listener_pc = "recv"
    /\ listener_pc' = "check"
    /\ recv_after_stop' = CountReceive(running, recv_after_stop)
    /\ UNCHANGED <<running, main_pc, returned, recv_msg, pending, data_lock, message_data,
                   message_timestamps, log_entries, log_line, stats, bus,
                   error_printed, heard, WatcherOthers>>

\* self.bus.recv raises: except Exception as e: if self.running: print(...); break
ListenerError ==
    /\ listener_pc = "recv"
    /\ error_printed' = (error_printed \/ running)
    /\ listener_pc' = "done"
    /\ recv_after_stop' = CountReceive(running, recv_after_stop)
    /\ UNCHANGED <<running, main_pc, returned, recv_msg, pending, data_lock, message_data,
                   message_timestamps, log_entries, log_line, stats, bus, heard,
                   WatcherOthers>>

\* update_message_data: with self.data_lock:
UpdateAcquire ==
    /\ listener_pc = "update"
    /\ LockFree(data_lock)
    /\ data_lock' = "listener"
    /\ pending' = decode_message(recv_msg).signals
    /\ listener_pc' = "writing"
    /\ UNCHANGED <<running, main_pc, returned, recv_msg, message_data, message_timestamps,
                   log_entries, log_line, stats, bus, error_printed, heard,
                   recv_after_stop, WatcherOthers>>

\* self.message_data[msg_name][signal_name] = value
UpdateWrite ==
    /\ listener_pc = "writing"
    /\ pending # <<>>
    /\ message_data' =
          [message_data EXCEPT ![decode_message(recv_msg).message_name]
                                   [Head(pending).signal_name] = Head(pending).value]
    /\ pending' = Tail(pending)
    /\ UNCHANGED <<running, main_pc, returned, listener_pc, recv_msg, data_lock,
                   message_timestamps, log_entries, log_line, stats, bus,
                   error_printed, heard, recv_after_stop, WatcherOthers>>

\* self.message_timestamps[msg_name] = time.time(); the with block ends
UpdateRelease ==
    /\ listener_pc = "writing"
    /\ pending = <<>>
    /\ message_timestamps' =
          [message_timestamps EXCEPT ![decode_message(recv_msg).message_name] = TRUE]
    /\ data_lock' = "free"
    /\ listener_pc' = "check"
    /\ UNCHANGED <<running, main_pc, returned, recv_msg, pending, message_data,
                   log_entries, log_line, stats, bus, error_printed, heard,
                   recv_after_stop, WatcherOthers>>

ListenerStep ==
    \/ ListenerCheck
    \/ ListenerFrame
    \/ ListenerTimeout
    \/ ListenerError
    \/ UpdateAcquire
    \/ UpdateWrite
    \/ UpdateRelease

MainStep ==
    \/ RunStart
    \/ LogAcquire
    \/ LogRead
    \/ LogRelease
    \/ LogSleep
    \/ KeyboardInterrupt
    \/ RunShutdown

WatcherNext == MainStep \/ ListenerStep

WatcherSpec == WatcherInit /\ [][WatcherNext]_vars

\* The listener thread is scheduled again and again, and every receive call returns.
WatcherLiveSpec == WatcherSpec /\ WF_vars(ListenerStep)

(***************************************************************************)
(* CANDecoder.run(): one action per message received.                      *)
(***************************************************************************)
DecoderInit ==
    /\ changes_only \in BOOLEAN
    /\ last_message_data = <<>>
    /\ run_received = <<>>
    /\ shown = <<>>
    /\ log_file = <<>>
    /\ indicators = <<>>
    /\ WatcherIdle
    /\ PersistIdle
    /\ PlotIdle
    /\ CaptureIdle
    /\ ToggleCaptureIdle
    /\ AnalyzerIdle
    /\ CodecIdle
    /\ DatabaseIdle
    /\ ValidateIdle

\* The line of a message that run() does not print.
NotPrinted == "not printed"

\* format_message_output: change_indicator, computed from last_message_data as
\* has_message_changed left it.
change_indicator(mode, is_changed, store, arbitration_id) ==
    IF mode /\ is_changed \in BOOLEAN
    THEN IF arbitration_id \notin DOMAIN store \/ Cardinality(DOMAIN store) = 1
         THEN " [NEW]"
         ELSE " [CHANGED]"
    ELSE ""

\* One round of the loop of run() with a message: has_message_changed in changes-only
\* mode, then print and log_message when the message is to be shown.  The decoded
\* text of the line comes from cantools and the DBC file, which the model leaves out.
DecoderReceive ==
    /\ Len(run_received) < MaxDecoded
    /\ \E m \in DecodedFrames :
          LET checked == IF changes_only THEN has_message_changed(last_message_data, m)
                         ELSE [changed |-> TRUE, store |-> last_message_data]
              message_changed == checked.changed
          IN  /\ last_message_data' = checked.store
              /\ run_received' = Append(run_received, m)
              /\ shown' = Append(shown, message_changed \/ ~changes_only)
              /\ log_file' =
                    IF message_changed \/ ~changes_only
                    THEN Append(log_file, [arbitration_id |-> m.arbitration_id,
                                           data |-> ListOfBytes(m.data),
                                           is_changed |-> message_changed,
                                           message |-> Len(run_received) + 1])
                    ELSE log_file
              /\ indicators' =
                    Append(indicators,
                           IF message_changed \/ ~changes_only
                           THEN change_indicator(changes_only, message_changed,
                                                 checked.store, m.arbitration_id)
                           ELSE NotPrinted)
    /\ UNCHANGED <<changes_only, codecVars, dbVars, validateVars, analyzerVars,
                   persistVars, plotVars, watcherVars, captureVars, toggleVars>>

DecoderNext == DecoderReceive

DecoderSpec == DecoderInit /\ [][DecoderNext]_vars

(***************************************************************************)
(* capture_messages as a state machine: the arguments are given, the       *)
(* function connects, then every action is one round of its while loop     *)
(* (can_action_analyzer.py, both copies).  Times are ticks since           *)
(* start_time.                                                             *)
(***************************************************************************)
\* Largest number of frames the bus delivers during one capture.
MaxCaptured == 2
\* Largest number of ticks that pass during one round of a capture loop.
MaxWait == 1
\* Largest repeat_count and toggle_count a capture is called with.
MaxRepeat == 3

CaptureDurations == {0, 2}

RepeatIntervals == {0, 1, 2}

CaptureCalls ==
    [duration : CaptureDurations, action_name : CaptureNames,
     repeat_count : 1..MaxRepeat, repeat_interval : RepeatIntervals]

\* total_duration = duration + (repeat_count - 1) * repeat_interval for a repeated
\* action, else duration
total_duration(args) ==
    IF args.repeat_count > 1 /\ args.action_name # Baseline
    THEN args.duration + (args.repeat_count - 1) * args.repeat_interval
    ELSE args.duration

\* The prompt condition without the test of action_count.
PromptDueUncounted(args, action_count, current_time, next_action_time) ==
    /\ args.action_name # Baseline
    /\ args.repeat_count > 1
    /\ current_time >= next_action_time

\* if action_name != "baseline" and repeat_count > 1 and action_count < repeat_count
\*    and current_time >= next_action_time
PromptDue(args, action_count, current_time, next_action_time) ==
    /\ args.action_name # Baseline
    /\ args.repeat_count > 1
    /\ action_count < args.repeat_count
    /\ current_time >= next_action_time

\* The frame bus.recv returns, stamped msg.timestamp = current_time - start_time.
CapturedFrame(current_time) == CanMessage(current_time, 947, <<1>>)

CaptureInit ==
    /\ cm_pc = "not called"
    /\ cm_args \in CaptureCalls
    /\ cm_clock = 0
    /\ cm_messages = <<>>
    /\ cm_action_timestamps = <<>>
    /\ cm_next_action_time = 0
    /\ cm_action_count = 0
    /\ cm_result = <<>>
    /\ ToggleCaptureIdle
    /\ PersistIdle
    /\ PlotIdle
    /\ WatcherIdle
    /\ DecoderIdle
    /\ AnalyzerIdle
    /\ CodecIdle
    /\ DatabaseIdle
    /\ ValidateIdle

\* The call up to the loop: return [] when connect() fails; else start_time is taken,
\* next_action_time = start_time + duration, action_count = 1.
CaptureStart ==
    /\ cm_pc = "not called"
    /\ \E connected \in BOOLEAN :
          IF connected
          THEN /\ cm_pc' = "loop"
               /\ cm_next_action_time' = cm_args.duration
               /\ cm_action_count' = 1
          ELSE /\ cm_pc' = "done"
               /\ UNCHANGED <<cm_next_action_time, cm_action_count>>
    /\ UNCHANGED <<cm_args, cm_clock, cm_messages, cm_action_timestamps, cm_result>>

\* One round of the while loop: current_time is read, the next action is prompted
\* for when it is due, bus.recv returns a frame or None after at most sample_rate.
CaptureRound ==
    /\ cm_pc = "loop"
    /\ cm_clock < total_duration(cm_args)
    /\ \E current_time \in cm_clock..(cm_clock + MaxWait), wait \in 0..MaxWait,
          received \in BOOLEAN :
          LET due == PromptDue(cm_args, cm_action_count, current_time, cm_next_action_time)
          IN  /\ received => Len(cm_messages) < MaxCaptured
              /\ cm_action_count' = IF due THEN cm_action_count + 1 ELSE cm_action_count
              /\ cm_action_timestamps' =
                    IF due THEN Append(cm_action_timestamps, current_time)
                    ELSE cm_action_timestamps
              /\ cm_next_action_time' =
                    IF due THEN current_time + cm_args.repeat_interval
                    ELSE cm_next_action_time
              /\ cm_messages' =
                    IF received THEN Append(cm_messages, CapturedFrame(current_time))
                    ELSE cm_messages
              /\ cm_clock' = current_time + wait
    /\ UNCHANGED <<cm_pc, cm_args, cm_result>>

\* The end of the call: self.captures[action_name] = messages, the metadata message
\* inserted for a repeated action, return messages.
CaptureStored ==
    capture_messages(cm_args.action_name, cm_args.repeat_count, cm_messages,
                     cm_action_timestamps)

\* while time.time() < end_time is false: the loop is left.
CaptureEnd ==
    /\ cm_pc = "loop"
    /\ cm_clock >= total_duration(cm_args)
    /\ cm_pc' = "done"
    /\ cm_result' = CaptureStored
    /\ UNCHANGED <<cm_args, cm_clock, cm_messages, cm_action_timestamps,
                   cm_next_action_time, cm_action_count>>

\* Ctrl-C while the loop waits in bus.recv: except KeyboardInterrupt, then the end of
\* the call as after the loop.
CaptureInterrupt ==
    /\ cm_pc = "loop"
    /\ cm_clock < total_duration(cm_args)
    /\ \E current_time \in cm_clock..(cm_clock + MaxWait) :
          LET due == PromptDue(cm_args, cm_action_count, current_time, cm_next_action_time)
              prompted == IF due THEN Append(cm_action_timestamps, current_time)
                          ELSE cm_action_timestamps
          IN  /\ cm_action_count' = IF due THEN cm_action_count + 1 ELSE cm_action_count
              /\ cm_action_timestamps' = prompted
              /\ cm_next_action_time' =
                    IF due THEN current_time + cm_args.repeat_interval
                    ELSE cm_next_action_time
              /\ cm_clock' = current_time
              /\ cm_result' = capture_messages(cm_args.action_name, cm_args.repeat_count,
                                               cm_messages, prompted)
    /\ cm_pc' = "done"
    /\ UNCHANGED <<cm_args, cm_messages>>

CaptureNext ==
    /\ \/ CaptureStart
       \/ CaptureRound
       \/ CaptureEnd
       \/ CaptureInterrupt
    /\ UNCHANGED <<codecVars, dbVars, validateVars, analyzerVars, persistVars, plotVars,
                   watcherVars, decoderVars, toggleVars>>

CaptureSpec == CaptureInit /\ [][CaptureNext]_vars

(***************************************************************************)
(* capture_binary_toggle as a state machine: the arguments and the two     *)
(* labels typed at the prompts are given, the function connects, then      *)
(* every action is one round of the inner while loop or the end of one     *)
(* state (can_action_analyzer.py).  Times are ticks since start_time.      *)
(***************************************************************************)
\* time.sleep(0.5) after a prompt, in ticks.
PauseTicks == TicksPerSecond \div 2

StateDurations == {0, 2}

ToggleCalls ==
    { [toggle_count |-> n, state_duration |-> d, initial_state |-> labels[1],
       toggled_state |-> labels[2]] :
         n \in 0..(MaxRepeat - 1), d \in StateDurations, labels \in ToggleLabels }

\* The next state taken to be the toggled state after every prompt.
NextStateToggled(current_state, initial_state, toggled_state) == toggled_state

\* if current_state == initial_state: next_state = toggled_state
\* else: next_state = initial_state
NextState(current_state, initial_state, toggled_state) ==
    IF current_state = initial_state THEN toggled_state ELSE initial_state

\* if toggle_num < (toggle_count * 2) - 1: a state change is prompted for
StateChangePrompted(toggle_num, toggle_count) == toggle_num < (toggle_count * 2) - 1

\* The end of the call: the metadata message inserted, self.captures[action_name] =
\* messages, return messages.
ToggleStored(received, toggle_events) ==
    capture_binary_toggle(received, toggle_events, bt_args.initial_state,
                          bt_args.toggled_state)

\* toggle_events after the prompt at current_time
EventsAfterPrompt(current_time) ==
    Append(bt_toggle_events,
           ToggleEvent(current_time, bt_current_state,
                       NextState(bt_current_state, bt_args.initial_state,
                                 bt_args.toggled_state),
                       (bt_toggle_num \div 2) + 1))

ToggleCaptureInit ==
    /\ bt_pc = "not called"
    /\ bt_args \in ToggleCalls
    /\ bt_clock = 0
    /\ bt_toggle_num = 0
    /\ bt_state_end_time = 0
    /\ bt_current_state = ""
    /\ bt_toggle_events = <<>>
    /\ bt_messages = <<>>
    /\ bt_interrupted = FALSE
    /\ bt_result = <<>>
    /\ CaptureIdle
    /\ PersistIdle
    /\ PlotIdle
    /\ WatcherIdle
    /\ DecoderIdle
    /\ AnalyzerIdle
    /\ CodecIdle
    /\ DatabaseIdle
    /\ ValidateIdle

\* The call up to the first state: return [] when connect() fails; else
\* current_state = initial_state and, unless range(toggle_count * 2) is empty, the
\* first state begins.
ToggleStart ==
    /\ bt_pc = "not called"
    /\ \E connected \in BOOLEAN :
          IF ~connected
          THEN /\ bt_pc' = "not connected"
               /\ UNCHANGED <<bt_current_state, bt_state_end_time, bt_result>>
          ELSE /\ bt_current_state' = bt_args.initial_state
               /\ IF bt_args.toggle_count * 2 > 0
                  THEN /\ bt_pc' = "state"
                       /\ bt_state_end_time' = bt_clock + bt_args.state_duration
                       /\ UNCHANGED bt_result
                  ELSE /\ bt_pc' = "done"
                       /\ bt_result' = ToggleStored(bt_messages, bt_toggle_events)
                       /\ UNCHANGED bt_state_end_time
    /\ UNCHANGED <<bt_args, bt_clock, bt_toggle_num, bt_toggle_events, bt_messages,
                   bt_interrupted>>

\* One round of while time.time() < state_end_time: bus.recv returns a frame or None
\* after at most sample_rate; msg.timestamp = time.time() - start_time.
ToggleReceive ==
    /\ bt_pc = "state"
    /\ bt_clock < bt_state_end_time
    /\ \E wait \in 0..MaxWait, received \in BOOLEAN :
          /\ received => Len(bt_messages) < MaxCaptured
          /\ bt_clock' = bt_clock + wait
          /\ bt_messages' =
                IF received THEN Append(bt_messages, CapturedFrame(bt_clock + wait))
                ELSE bt_messages
    /\ UNCHANGED <<bt_pc, bt_args, bt_toggle_num, bt_state_end_time, bt_current_state,
                   bt_toggle_events, bt_interrupted, bt_result>>

\* The state is over and it is not the last one: the event is recorded, the prompt
\* printed, current_state = next_state, time.sleep(0.5), and the next state begins.
ToggleStateChange ==
    /\ bt_pc = "state"
    /\ bt_clock >= bt_state_end_time
    /\ StateChangePrompted(bt_toggle_num, bt_args.toggle_count)
    /\ bt_toggle_events' = EventsAfterPrompt(bt_clock)
    /\ bt_current_state' = NextState(bt_current_state, bt_args.initial_state,
                                     bt_args.toggled_state)
    /\ bt_clock' = bt_clock + PauseTicks
    /\ bt_toggle_num' = bt_toggle_num + 1
    /\ bt_state_end_time' = bt_clock + PauseTicks + bt_args.state_duration
    /\ UNCHANGED <<bt_pc, bt_args, bt_messages, bt_interrupted, bt_result>>

\* The last state is over: the for loop ends and the capture is stored.
ToggleLastState ==
    /\ bt_pc = "state"
    /\ bt_clock >= bt_state_end_time
    /\ ~StateChangePrompted(bt_toggle_num, bt_args.toggle_count)
    /\ bt_toggle_num' = bt_toggle_num + 1
    /\ bt_pc' = "done"
    /\ bt_result' = ToggleStored(bt_messages, bt_toggle_events)
    /\ UNCHANGED <<bt_args, bt_clock, bt_state_end_time, bt_current_state,
                   bt_toggle_events, bt_messages, bt_interrupted>>

\* Ctrl-C while the loop waits in bus.recv: except KeyboardInterrupt, then the capture
\* is stored.
ToggleInterrupt ==
    /\ bt_pc = "state"
    /\ bt_clock < bt_state_end_time
    /\ bt_interrupted' = TRUE
    /\ bt_pc' = "done"
    /\ bt_result' = ToggleStored(bt_messages, bt_toggle_events)
    /\ UNCHANGED <<bt_args, bt_clock, bt_toggle_num, bt_state_end_time, bt_current_state,
                   bt_toggle_events, bt_messages>>

\* Ctrl-C during time.sleep(0.5) after a prompt: the event is recorded, then the
\* capture is stored.
ToggleInterruptPause ==
    /\ bt_pc = "state"
    /\ bt_clock >= bt_state_end_time
    /\ StateChangePrompted(bt_toggle_num, bt_args.toggle_count)
    /\ bt_toggle_events' = EventsAfterPrompt(bt_clock)
    /\ bt_current_state' = NextState(bt_current_state, bt_args.initial_state,
                                     bt_args.toggled_state)
    /\ bt_interrupted' = TRUE
    /\ bt_pc' = "done"
    /\ bt_result' = ToggleStored(bt_messages, EventsAfterPrompt(bt_clock))
    /\ UNCHANGED <<bt_args, bt_clock, bt_toggle_num, bt_state_end_time, bt_messages>>

ToggleCaptureNext ==
    /\ \/ ToggleStart
       \/ ToggleReceive
       \/ ToggleStateChange
       \/ ToggleLastState
       \/ ToggleInterrupt
       \/ ToggleInterruptPause
    /\ UNCHANGED <<codecVars, dbVars, validateVars, analyzerVars, persistVars, plotVars,
                   watcherVars, decoderVars, captureVars>>

ToggleCaptureSpec == ToggleCaptureInit /\ [][ToggleCaptureNext]_vars

(***************************************************************************)
(* Reference values the claims are stated with (spec section 4.1).         *)
(***************************************************************************)
RECURSIVE SeqSum(_)
SeqSum(xs) == IF xs = <<>> THEN 0 ELSE Head(xs) + SeqSum(Tail(xs))

\* Payload bit b in Motorola numbering: byte b div 8, in-byte position 7 - (b mod 8);
\* 0 for an index outside [0, LastBit] or in a byte the payload does not have.
MotorolaBit(d, b) ==
    IF b < 0 \/ b > LastBit \/ b \div 8 >= Len(d)
    THEN 0
    ELSE BitOf(d[(b \div 8) + 1], 7 - (b % 8))

\* Payload bit b in Intel numbering: byte b div 8, in-byte position b mod 8.
IntelBit(d, b) ==
    IF b < 0 \/ b > LastBit \/ b \div 8 >= Len(d)
    THEN 0
    ELSE BitOf(d[(b \div 8) + 1], b % 8)

\* The integer whose most significant bit is Motorola bit start: bit start - i weighs
\* 2^(length-1-i).
MotorolaMsbAtStart(d, start, length) ==
    SeqSum([i \in 1..length |-> MotorolaBit(d, start - (i - 1)) * 2 ^ (length - i)])

\* The integer made of Motorola bits start-length+1 .. start with bit b weighing
\* 2^(start-b).
MotorolaLsbAtStart(d, start, length) ==
    SeqSum([i \in 1..length |-> MotorolaBit(d, start - (i - 1)) * 2 ^ (i - 1)])

\* The integer made of Intel bits start .. start+length-1, bit start least significant.
IntelLsbAtStart(d, start, length) ==
    SeqSum([i \in 1..length |-> IntelBit(d, start + (i - 1)) * 2 ^ (i - 1)])

\* Bits start-length+1 .. start of the payload read as a little-endian integer, bit
\* start most significant.
LittleEndianField(d, start, length) ==
    SeqSum([i \in 1..length |-> IntelBit(d, start - (i - 1)) * 2 ^ (length - i)])

\* The payload extended to a full frame with zero bytes.
ZeroExtended(d) == [i \in 1..FrameBytes |-> IF i <= Len(d) THEN d[i] ELSE 0]

Vector1 == <<0, 8, 0, 0, 0, 0, 0, 0>>

Vector2 == <<0, 0, 50, 0, 0, 0, 0, 0>>

\* Signal.decode has run on an unsigned Motorola descriptor (start, length).
DecodedMotorola(start, length) ==
    /\ op = "Signal.decode"
    /\ sig.byte_order = "big_endian"
    /\ ~sig.is_signed
    /\ sig.start = start
    /\ sig.length = length

\* The descriptor's Motorola bits all lie in the frame.
MotorolaInFrame == 0 <= sig.start - sig.length + 1 /\ sig.start <= LastBit

(***************************************************************************)
(* C1.  Known vector 1: the Motorola decoder of the message database       *)
(* (Signal._extract_motorola) decodes the unsigned signal start_bit = 11,  *)
(* length = 2 from 00 08 00 00 00 00 00 00 to the raw value 2.             *)
(* The code returns 0: bit 11 is read from byte 1, in-byte position 4.     *)
(***************************************************************************)
C1_KnownVector1 ==
    (DecodedMotorola(11, 2) /\ data = Vector1) => extracted = 2

(***************************************************************************)
(* C2.  Known vector 2: the Motorola decoder of the message database       *)
(* decodes the unsigned signal start_bit = 22, length = 7 from             *)
(* 00 00 32 00 00 00 00 00 to the raw value 50.  The code returns 25.      *)
(***************************************************************************)
C2_KnownVector2 ==
    (DecodedMotorola(22, 7) /\ data = Vector2) => extracted = 50

(***************************************************************************)
(* C3.  For every 8-byte payload and every Motorola descriptor whose bits  *)
(* lie in [0, 63], Signal._extract_motorola returns the integer in which   *)
(* the payload bit at start_bit is the most significant one: bit           *)
(* start_bit - i weighs 2^(length-1-i).  The code gives bit start_bit - i  *)
(* the weight 2^i.                                                         *)
(***************************************************************************)
C3_MsbAtStartBit ==
    (/\ op = "Signal.decode"
     /\ sig.byte_order = "big_endian"
     /\ Len(data) = FrameBytes
     /\ MotorolaInFrame)
    => extracted = MotorolaMsbAtStart(data, sig.start, sig.length)

(***************************************************************************)
(* C4.  For every 8-byte payload and every (start_bit, length) with        *)
(* 0 <= start_bit - length + 1 and start_bit <= 63, extract_signal_value   *)
(* of the experiments logger returns the unsigned integer formed by bits   *)
(* start_bit-length+1 .. start_bit of the payload read as a little-endian  *)
(* integer, bit start_bit most significant; on the two vectors of the test *)
(* it returns 2 and 50.                                                    *)
(***************************************************************************)
C4_LittleEndianField ==
    (/\ op = "extract_signal_value"
     /\ Len(data) = FrameBytes
     /\ MotorolaInFrame)
    => /\ result = Number(LittleEndianField(data, sig.start, sig.length))
       /\ (data = Vector1 /\ sig.start = 11 /\ sig.length = 2) => result.value = 2
       /\ (data = Vector2 /\ sig.start = 22 /\ sig.length = 7) => result.value = 50

\* extract_signal_value has returned 50 for the second vector of the test.
C4_Witness ==
    /\ op = "extract_signal_value"
    /\ data = Vector2
    /\ sig.start = 22
    /\ sig.length = 7
    /\ result = Number(50)

(***************************************************************************)
(* C5.  Decoding is total: for every 8-byte payload and every descriptor   *)
(* with 0 <= start_bit <= 63 and 1 <= length <= 64, each decoder returns a *)
(* decoded value and never raises.  extract_signal_value raises ValueError *)
(* (negative shift count) when length > start_bit + 1.                     *)
(***************************************************************************)
C5_DecodeTotal ==
    (/\ op \in {"Signal.decode", "extract_signal", "extract_signal_value"}
     /\ Len(data) = FrameBytes
     /\ 0 <= sig.start /\ sig.start <= LastBit
     /\ 1 <= sig.length /\ sig.length <= 64)
    => result.kind \notin {"raised", "None"}

(***************************************************************************)
(* C6.  In Motorola and Intel extraction alike (Signal._extract_motorola,  *)
(* Signal._extract_intel, CANStandaloneLogger.extract_signal) every bit    *)
(* index outside [0, 63] contributes 0 to the raw value, and a payload of  *)
(* fewer than 8 bytes decodes to the value of the same payload extended to *)
(* 8 bytes with zero bytes.                                                *)
(***************************************************************************)
C6_OutsideBitsAreZero ==
    /\ (op = "Signal.decode" /\ sig.byte_order = "big_endian")
       => /\ extracted = MotorolaLsbAtStart(data, sig.start, sig.length)
          /\ extracted = MotorolaLsbAtStart(ZeroExtended(data), sig.start, sig.length)
    /\ (op = "Signal.decode" /\ sig.byte_order = "little_endian")
       => /\ extracted = IntelLsbAtStart(data, sig.start, sig.length)
          /\ extracted = IntelLsbAtStart(ZeroExtended(data), sig.start, sig.length)
    /\ op = "extract_signal"
       => /\ extracted = MotorolaMsbAtStart(data, sig.start, sig.length)
          /\ extracted = MotorolaMsbAtStart(ZeroExtended(data), sig.start, sig.length)

\* A 3-byte payload decoded with a descriptor that reaches below bit 0, the bits
\* inside the payload giving a non-zero raw value.
C6_Witness ==
    /\ op = "Signal.decode"
    /\ sig.byte_order = "big_endian"
    /\ Len(data) = 3
    /\ sig.start - sig.length + 1 < 0
    /\ extracted > 0

(***************************************************************************)
(* C7.  When the value table contains the raw field value, Signal.decode   *)
(* returns a named value that carries that raw integer with the label of   *)
(* raw, whatever scale and offset are.  The code builds the named value    *)
(* from scaled_value = raw * scale + offset.                               *)
(***************************************************************************)
C7_NamedCarriesRaw ==
    (/\ op = "Signal.decode"
     /\ sig.choices # <<>>
     /\ raw_value \in DOMAIN sig.choices)
    => /\ result.kind = "NamedSignalValue"
       /\ result.value = raw_value
       /\ result.name = sig.choices[raw_value]

(***************************************************************************)
(* C8.  When a signal's value table does not contain the decoded raw       *)
(* value, the result is the unlabeled numeric value raw * scale + offset   *)
(* in every decoder.  The experiments decode_can_message (scale 1,         *)
(* offset 0) returns the string "Unknown(<raw>)" instead.                  *)
(***************************************************************************)
C8_TableMissIsNumeric ==
    /\ (/\ op = "Signal.decode"
        /\ sig.choices # <<>>
        /\ raw_value \notin DOMAIN sig.choices)
       => result = Number(raw_value * sig.scale + sig.offset)
    /\ (/\ op = "extract_signal"
        /\ sig.choices # <<>>
        /\ raw_value \notin DOMAIN sig.choices)
       => /\ result.kind = "SignalValue"
          /\ result.name = ""
          /\ result.scaled = raw_value * sig.scale + sig.offset
    /\ (op = "decode_can_message" /\ decoded.returned = "dict")
       => \A n \in DOMAIN decoded.signals :
             LET signal_def == CAN_MESSAGES[can_id].signals[n]
                 raw == LittleEndianField(data, signal_def.start_bit, signal_def.length)
             IN  (signal_def.has_values /\ raw \notin DOMAIN signal_def.values)
                 => decoded.signals[n] = Number(raw * 1 + 0)

\* The bits a signal claims: [start-length+1, start] for Motorola,
\* [start, start+length-1] for Intel.
ClaimedBits(signal) ==
    IF signal.byte_order = "big_endian"
    THEN (signal.start - signal.length + 1)..signal.start
    ELSE signal.start..(signal.start + signal.length - 1)

OverlappingSignals(message) ==
    \E i, j \in 1..Len(message.signals) :
        i # j /\ ClaimedBits(message.signals[i]) \cap ClaimedBits(message.signals[j]) # {}

(***************************************************************************)
(* C9.  Registering a message whose frame id or name is already registered *)
(* fails, and so does registering a message with two signals that claim a  *)
(* common bit: the database never holds two messages with the same frame   *)
(* id or the same name, nor a message with overlapping signals.            *)
(* add_message checks nothing: it appends the message and overwrites the   *)
(* two index entries.                                                      *)
(***************************************************************************)
C9_RegisterRejects ==
    /\ \A i, j \in 1..Len(messages) :
          i # j => /\ messages[i].frame_id # messages[j].frame_id
                   /\ messages[i].name # messages[j].name
    /\ \A i \in 1..Len(messages) : ~OverlappingSignals(messages[i])

(***************************************************************************)
(* C10.  Validation fails for every signal of which some bit of its range  *)
(* lies outside [0, dlc*8) and for every signal with length 0 or           *)
(* length > 64: a message containing such a signal never passes.           *)
(* validate_dbc_file checks start_bit alone against [0, dlc*8): a Motorola *)
(* signal reaching below bit 0 passes.                                     *)
(***************************************************************************)
C10_ValidationRejects ==
    validation = "passed"
    => \A i \in 1..Len(dbc) :
          \A k \in 1..Len(dbc[i].signals) :
              LET signal == dbc[i].signals[k]
              IN  /\ 1 <= signal.length /\ signal.length <= 64
                  /\ ClaimedBits(signal) \subseteq 0..(dbc[i].length * 8 - 1)

(***************************************************************************)
(* Reference values for the capture diff (spec section 4.3), stated on the *)
(* captures themselves.                                                    *)
(***************************************************************************)
\* The frames of a capture, without the metadata message at its head.
FramesOf(name) == SelectSeq(captures[name], LAMBDA m : m.attrs = {})

\* The action events of the action capture (none for a single-action capture).
ActionEvents ==
    IF captures["action"] # <<>> /\ "action_timestamps" \in captures["action"][1].attrs
    THEN captures["action"][1].action_timestamps
    ELSE <<>>

CountOf(frames, id) ==
    Cardinality({ i \in DOMAIN frames : frames[i].arbitration_id = id })

DistinctPayloads(frames, id) ==
    { frames[i].data : i \in { j \in DOMAIN frames : frames[j].arbitration_id = id } }

\* The ids that appear in the baseline or in the action capture.
ComparedIds ==
    { FramesOf("baseline")[i].arbitration_id : i \in DOMAIN FramesOf("baseline") }
    \cup { FramesOf("action")[i].arbitration_id : i \in DOMAIN FramesOf("action") }

\* The timestamp of the last frame, or 1.0 second for an empty capture (in ticks).
ClaimedDuration(frames) ==
    IF frames = <<>> THEN TicksPerSecond ELSE frames[Len(frames)].timestamp

ClaimedIsNew(id) ==
    CountOf(FramesOf("baseline"), id) = 0 /\ CountOf(FramesOf("action"), id) > 0

ClaimedNewPayloads(id) ==
    DistinctPayloads(FramesOf("action"), id) \ DistinctPayloads(FramesOf("baseline"), id)

\* |freq_change_pct| > 20 with base_freq = bc / bd and action_freq = ac / ad:
\* |ac * bd - bc * ad| * 100 > 20 * bc * ad when base_freq > 0; +infinity > 20 when
\* base_freq = 0 < action_freq; 0 > 20 is false otherwise.
ClaimedHasFreqChange(id) ==
    LET bc == CountOf(FramesOf("baseline"), id)
        ac == CountOf(FramesOf("action"), id)
        bd == ClaimedDuration(FramesOf("baseline"))
        ad == ClaimedDuration(FramesOf("action"))
    IN  IF bc > 0 THEN Abs(ac * bd - bc * ad) * 100 > 20 * bc * ad
        ELSE ac > 0

Reported(id) == differences.kind = "dict" /\ id \in DOMAIN differences.items

(***************************************************************************)
(* C11.  For every frame id of the baseline or the action capture,         *)
(* compare_captures puts the id in its result if and only if is_new, or    *)
(* |freq_change_pct| > 20, or new_payloads is non-empty.  When the last    *)
(* frame of a capture has timestamp 0 the call raises and reports nothing, *)
(* a new id included.                                                      *)
(***************************************************************************)
C11_ReportedIff ==
    analyzer_op = "compare_captures"
    => \A id \in ComparedIds :
          Reported(id) <=> \/ ClaimedIsNew(id)
                           \/ ClaimedNewPayloads(id) # {}
                           \/ ClaimedHasFreqChange(id)

(***************************************************************************)
(* C12.  For every frame id compare_captures computes                      *)
(* base_freq = base_count / baseline duration,                             *)
(* action_freq = action_count / action duration, the duration being the    *)
(* timestamp of the last frame or 1.0 for an empty capture, and            *)
(* freq_change_pct = (action_freq - base_freq) / base_freq * 100 when      *)
(* base_freq > 0, otherwise +infinity when action_freq > 0, otherwise 0.   *)
(* Stated for the calls that return, where the quotients exist.            *)
(***************************************************************************)
C12_Frequencies ==
    (analyzer_op = "compare_captures" /\ differences.kind = "dict")
    => /\ DOMAIN compared = ComparedIds
       /\ \A id \in ComparedIds :
             LET c == compared[id]
                 bc == CountOf(FramesOf("baseline"), id)
                 ac == CountOf(FramesOf("action"), id)
                 bd == ClaimedDuration(FramesOf("baseline"))
                 ad == ClaimedDuration(FramesOf("action"))
             IN  /\ c.base_freq.den > 0
                 /\ c.base_freq.num * bd = bc * TicksPerSecond * c.base_freq.den
                 /\ c.action_freq.den > 0
                 /\ c.action_freq.num * ad = ac * TicksPerSecond * c.action_freq.den
                 /\ IF bc > 0
                    THEN /\ c.freq_change_pct.den > 0
                         /\ c.freq_change_pct.num * (bc * ad)
                               = (ac * bd - bc * ad) * 100 * c.freq_change_pct.den
                    ELSE IF ac > 0
                         THEN c.freq_change_pct = Inf
                         ELSE c.freq_change_pct = [num |-> 0, den |-> 1]

\* A call that returned with an id whose frequency changed by a finite non-zero
\* percentage and an id absent from the baseline.
C12_Witness ==
    /\ analyzer_op = "compare_captures"
    /\ differences.kind = "dict"
    /\ \E id \in DOMAIN compared :
          compared[id].freq_change_pct.den > 0 /\ compared[id].freq_change_pct.num < 0
    /\ \E id \in DOMAIN compared : compared[id].freq_change_pct = Inf

(***************************************************************************)
(* C13.  compare_captures and analyze_binary_toggles complete without      *)
(* raising and without dividing by zero for every pair of captures whose   *)
(* frame timestamps are >= 0, an empty and a single-frame capture          *)
(* included.  compare_captures divides by the timestamp of the last frame, *)
(* which is 0 for a single frame received at the start of the capture.     *)
(***************************************************************************)
C13_NeverRaises ==
    /\ analyzer_op = "compare_captures" => differences.kind # "raised"
    /\ analyzer_op = "analyze_binary_toggles" => toggle_analysis.kind # "raised"

(***************************************************************************)
(* C14.  action_correlated is computed only when the action capture has at *)
(* least 2 action events; an event is matched exactly when some frame of   *)
(* the id lies within 1.0 second of it (|t_frame - t_event| <= 1.0), and   *)
(* action_correlated is true iff matched events >= 0.5 * total events.     *)
(* The code matches with |t_frame - t_event| < 1.0.                        *)
(***************************************************************************)
ClaimedMatchedEvents(id) ==
    { k \in DOMAIN ActionEvents :
         \E i \in DOMAIN FramesOf("action") :
            /\ FramesOf("action")[i].arbitration_id = id
            /\ Abs(FramesOf("action")[i].timestamp - ActionEvents[k]) <= 1 * TicksPerSecond }

ClaimedCorrelated(id) ==
    /\ Len(ActionEvents) >= 2
    /\ 2 * Cardinality(ClaimedMatchedEvents(id)) >= Len(ActionEvents)

C14_ActionCorrelated ==
    (analyzer_op = "compare_captures" /\ differences.kind = "dict")
    => \A id \in DOMAIN compared :
          compared[id].action_correlated <=> ClaimedCorrelated(id)

(***************************************************************************)
(* C15.  For every combination of is_new, number of new payloads,          *)
(* freq_change_pct (finite, negative or +infinity) and action_correlated,  *)
(* _calculate_confidence returns                                           *)
(*   min(100, 70*[is_new] + min(10 * count(new_payloads), 20)              *)
(*            + (10 if |freq_change_pct| > 100, else 5 if > 50, else 0)    *)
(*            + 15*[action_correlated]),                                   *)
(* and the result lies in [0, 100].                                        *)
(***************************************************************************)
\* |pct| > k for a fraction or +infinity
MagnitudeAbove(pct, k) == pct.den = 0 \/ Abs(pct.num) > k * pct.den

ClaimedScore(d) ==
    LET sum == (IF d.is_new THEN 70 ELSE 0)
               + (IF 10 * Cardinality(d.new_payloads) < 20
                  THEN 10 * Cardinality(d.new_payloads) ELSE 20)
               + (IF MagnitudeAbove(d.freq_change_pct, 100) THEN 10
                  ELSE IF MagnitudeAbove(d.freq_change_pct, 50) THEN 5 ELSE 0)
               + (IF d.action_correlated THEN 15 ELSE 0)
    IN  IF sum > 100 THEN 100 ELSE sum

C15_ScoreFormula ==
    analyzer_op = "_calculate_confidence"
    => /\ score = ClaimedScore(diff)
       /\ 0 <= score /\ score <= 100

\* A new, correlated id with two new payloads: 70 + 20 + 10 + 15 is capped to 100.
C15_Witness ==
    /\ analyzer_op = "_calculate_confidence"
    /\ diff.is_new /\ diff.action_correlated
    /\ Cardinality(diff.new_payloads) >= 2
    /\ diff.freq_change_pct = Inf
    /\ score = 100

(***************************************************************************)
(* C16.  print_differences lists the result entries in descending          *)
(* lexicographic order of the key (action_correlated, is_new,              *)
(* count(new_payloads), |freq_change_pct|): every entry is listed once and *)
(* none is listed after an entry whose key is strictly smaller.            *)
(***************************************************************************)
\* |a| < |b| for fractions and +infinity
MagnitudeSmaller(a, b) == Abs(a.num) * b.den < Abs(b.num) * a.den

\* The key of entry a is strictly smaller than the key of entry b.
ClaimedKeySmaller(a, b) ==
    \/ ~a.action_correlated /\ b.action_correlated
    \/ /\ a.action_correlated = b.action_correlated
       /\ \/ ~a.is_new /\ b.is_new
          \/ /\ a.is_new = b.is_new
             /\ \/ Cardinality(a.new_payloads) < Cardinality(b.new_payloads)
                \/ /\ Cardinality(a.new_payloads) = Cardinality(b.new_payloads)
                   /\ MagnitudeSmaller(a.freq_change_pct, b.freq_change_pct)

C16_ListedDescending ==
    analyzer_op = "print_differences"
    => /\ Len(sorted_diffs) = Cardinality(DOMAIN differences.items)
       /\ { sorted_diffs[i] : i \in DOMAIN sorted_diffs } = DOMAIN differences.items
       /\ \A i, j \in DOMAIN sorted_diffs :
             i < j => ~ClaimedKeySmaller(differences.items[sorted_diffs[i]],
                                         differences.items[sorted_diffs[j]])

\* Three entries with three different keys, listed from the largest key down.
C16_Witness ==
    /\ analyzer_op = "print_differences"
    /\ Len(sorted_diffs) = 3
    /\ ClaimedKeySmaller(differences.items[sorted_diffs[2]], differences.items[sorted_diffs[1]])
    /\ ClaimedKeySmaller(differences.items[sorted_diffs[3]], differences.items[sorted_diffs[2]])
    /\ sorted_diffs[1] > sorted_diffs[2]

(***************************************************************************)
(* C17.  For every baseline and action capture with positive durations and *)
(* every frame id with 0 frames in the baseline and at least 1 frame in    *)
(* the action capture, compare_captures reports the id with is_new = true  *)
(* and its confidence score is >= 70.                                      *)
(***************************************************************************)
PositiveDurations ==
    /\ ClaimedDuration(FramesOf("baseline")) > 0
    /\ ClaimedDuration(FramesOf("action")) > 0

C17_NewIdReported ==
    (analyzer_op = "compare_captures" /\ PositiveDurations)
    => \A id \in ComparedIds :
          ClaimedIsNew(id)
          => /\ Reported(id)
             /\ differences.items[id].is_new
             /\ _calculate_confidence(differences.items[id]) >= 70

\* An id absent from a non-empty baseline, received once in the action capture.
C17_Witness ==
    /\ analyzer_op = "compare_captures"
    /\ PositiveDurations
    /\ FramesOf("baseline") # <<>>
    /\ \E id \in ComparedIds :
          /\ ClaimedIsNew(id)
          /\ CountOf(FramesOf("action"), id) = 1
          /\ Reported(id)

(***************************************************************************)
(* C18.  If for a frame id the baseline and the action capture have        *)
(* identical frame distributions (same number of frames of the id, same    *)
(* capture duration, same set of payloads), the id is absent from the      *)
(* result of compare_captures.                                             *)
(***************************************************************************)
IdenticalDistribution(id) ==
    /\ CountOf(FramesOf("baseline"), id) = CountOf(FramesOf("action"), id)
    /\ ClaimedDuration(FramesOf("baseline")) = ClaimedDuration(FramesOf("action"))
    /\ DistinctPayloads(FramesOf("baseline"), id) = DistinctPayloads(FramesOf("action"), id)

C18_IdenticalAbsent ==
    analyzer_op = "compare_captures"
    => \A id \in ComparedIds : IdenticalDistribution(id) => ~Reported(id)

\* A call that returned a result with one id in it, and another id with the same
\* frames in both captures left out.
C18_Witness ==
    /\ analyzer_op = "compare_captures"
    /\ differences.kind = "dict"
    /\ DOMAIN differences.items # {}
    /\ \E id \in ComparedIds :
          /\ IdenticalDistribution(id)
          /\ CountOf(FramesOf("action"), id) > 0
          /\ ~Reported(id)

(***************************************************************************)
(* Reference values for the toggle analysis (spec section 4.5), stated on  *)
(* the toggle capture.                                                     *)
(***************************************************************************)
IsToggleCapture ==
    captures["toggle"] # <<>> /\ "toggle_events" \in captures["toggle"][1].attrs

ToggleMeta == captures["toggle"][1]

ToggleIds ==
    { FramesOf("toggle")[i].arbitration_id : i \in DOMAIN FramesOf("toggle") }

\* The frames of an id in the order received, which is the order of their timestamps.
FramesOfId(id) == SelectSeq(FramesOf("toggle"), LAMBDA m : m.arbitration_id = id)

\* The times at which the payload of the id differs from its previous payload.
ChangeTimes(id) ==
    { FramesOfId(id)[i].timestamp :
         i \in { j \in 2..Len(FramesOfId(id)) :
                    FramesOfId(id)[j].data # FramesOfId(id)[j - 1].data } }

\* The toggle events with a payload change of the id within 2.0 seconds.
EventsWithChange(id) ==
    { k \in DOMAIN ToggleMeta.toggle_events :
         \E t \in ChangeTimes(id) :
            Abs(t - ToggleMeta.toggle_events[k].timestamp) <= 2 * TicksPerSecond }

IsBinaryToggle(id) ==
    /\ toggle_analysis.kind = "dict"
    /\ id \in DOMAIN toggle_analysis.items
    /\ toggle_analysis.items[id].is_binary_toggle

(***************************************************************************)
(* C19.  For every frame id of a toggle capture, analyze_binary_toggles    *)
(* sets is_binary_toggle = true if and only if the id has exactly 2 unique *)
(* payloads and correlated_changes / len(toggle_events) >= 0.6 (the ratio  *)
(* of a capture without toggle events counts as 0).                        *)
(***************************************************************************)
C19_BinaryToggleIff ==
    (analyzer_op = "analyze_binary_toggles" /\ IsToggleCapture)
    => \A id \in ToggleIds :
          IsBinaryToggle(id)
          <=> /\ Cardinality(DistinctPayloads(FramesOf("toggle"), id)) = 2
              /\ Len(ToggleMeta.toggle_events) > 0
              /\ 10 * Cardinality(EventsWithChange(id)) >= 6 * Len(ToggleMeta.toggle_events)

\* Exactly 3 of 5 toggle events have a payload change nearby: the ratio is 0.6.
C19_Witness ==
    /\ analyzer_op = "analyze_binary_toggles"
    /\ IsToggleCapture
    /\ Len(ToggleMeta.toggle_events) = 5
    /\ \E id \in ToggleIds :
          /\ IsBinaryToggle(id)
          /\ Cardinality(EventsWithChange(id)) = 3

(***************************************************************************)
(* C20.  For a toggle capture with n >= 1 toggle events and a frame id     *)
(* that has exactly 2 distinct payloads and changes payload within 2 s of  *)
(* every toggle event, analyze_binary_toggles reports                      *)
(* is_binary_toggle = true, binary_confidence = 100 and a state mapping    *)
(* that gives a payload to both state labels.                              *)
(***************************************************************************)
CleanToggle(id) ==
    /\ Len(ToggleMeta.toggle_events) >= 1
    /\ Cardinality(DistinctPayloads(FramesOf("toggle"), id)) = 2
    /\ EventsWithChange(id) = DOMAIN ToggleMeta.toggle_events

C20_CleanToggle ==
    (analyzer_op = "analyze_binary_toggles" /\ IsToggleCapture)
    => \A id \in ToggleIds :
          CleanToggle(id)
          => /\ IsBinaryToggle(id)
             /\ toggle_analysis.items[id].binary_confidence = [num |-> 100, den |-> 1]
             /\ LET state_payloads == toggle_analysis.items[id].state_payloads
                IN  /\ DOMAIN state_payloads
                          = {ToggleMeta.initial_state, ToggleMeta.toggled_state}
                    /\ \A label \in DOMAIN state_payloads :
                          state_payloads[label]
                             \in DistinctPayloads(FramesOf("toggle"), id)
                    /\ ToggleMeta.initial_state # ToggleMeta.toggled_state
                       => /\ state_payloads[ToggleMeta.initial_state]
                               # state_payloads[ToggleMeta.toggled_state]
                          /\ { state_payloads[label] : label \in DOMAIN state_payloads }
                               = DistinctPayloads(FramesOf("toggle"), id)

\* The spec's case: 5 toggle events, each with a payload change of the id nearby.
C20_Witness ==
    /\ analyzer_op = "analyze_binary_toggles"
    /\ IsToggleCapture
    /\ Len(ToggleMeta.toggle_events) = 5
    /\ \E id \in ToggleIds : CleanToggle(id) /\ IsBinaryToggle(id)

(***************************************************************************)
(* C21.  A frame id whose frames carry 3 (or more) distinct payloads in    *)
(* the toggle capture is never classified is_binary_toggle, whatever the   *)
(* number and timing of its payload changes relative to the toggle events. *)
(***************************************************************************)
C21_ThreePayloadsNeverBinary ==
    (analyzer_op = "analyze_binary_toggles" /\ IsToggleCapture)
    => \A id \in ToggleIds :
          Cardinality(DistinctPayloads(FramesOf("toggle"), id)) >= 3
          => ~IsBinaryToggle(id)

\* An id with 3 distinct payloads and a payload change near every toggle event:
\* reported, and not as a binary toggle.
C21_Witness ==
    /\ analyzer_op = "analyze_binary_toggles"
    /\ IsToggleCapture
    /\ \E id \in ToggleIds :
          /\ Cardinality(DistinctPayloads(FramesOf("toggle"), id)) = 3
          /\ Len(ToggleMeta.toggle_events) >= 2
          /\ EventsWithChange(id) = DOMAIN ToggleMeta.toggle_events
          /\ id \in DOMAIN toggle_analysis.items
          /\ ~toggle_analysis.items[id].is_binary_toggle

(***************************************************************************)
(* C22.  When an id is classified as a binary toggle, its state mapping is *)
(* fixed by the first correlated transition (the match of the              *)
(* earliest-listed toggle event that has a payload change in its window):  *)
(* if that event's from_state equals initial_state, initial_state maps to  *)
(* the change's from_payload and toggled_state to its to_payload,          *)
(* otherwise the assignment is reversed; the two labels are mapped to the  *)
(* two distinct payloads of the id.                                        *)
(***************************************************************************)
\* The earliest-listed toggle event with a payload change of the id in its window.
FirstCorrelatedEvent(id) ==
    ToggleMeta.toggle_events[
        CHOOSE k \in EventsWithChange(id) : \A other \in EventsWithChange(id) : k <= other]

\* The index, among the frames of the id, of the earliest payload change in the
\* window of the event.
FirstChangeIndex(id, event) ==
    LET near == { j \in 2..Len(FramesOfId(id)) :
                     /\ FramesOfId(id)[j].data # FramesOfId(id)[j - 1].data
                     /\ Abs(FramesOfId(id)[j].timestamp - event.timestamp)
                           <= 2 * TicksPerSecond }
    IN  CHOOSE j \in near : \A other \in near : j <= other

C22_StateMapping ==
    (analyzer_op = "analyze_binary_toggles" /\ IsToggleCapture)
    => \A id \in ToggleIds :
          IsBinaryToggle(id)
          => LET event == FirstCorrelatedEvent(id)
                 j == FirstChangeIndex(id, event)
                 from_payload == FramesOfId(id)[j - 1].data
                 to_payload == FramesOfId(id)[j].data
                 state_payloads == toggle_analysis.items[id].state_payloads
             IN  /\ DOMAIN state_payloads
                       = {ToggleMeta.initial_state, ToggleMeta.toggled_state}
                 /\ IF event.from_state = ToggleMeta.initial_state
                    THEN /\ state_payloads[ToggleMeta.initial_state] = from_payload
                         /\ state_payloads[ToggleMeta.toggled_state] = to_payload
                    ELSE /\ state_payloads[ToggleMeta.toggled_state] = from_payload
                         /\ state_payloads[ToggleMeta.initial_state] = to_payload
                 /\ { state_payloads[label] : label \in DOMAIN state_payloads }
                       = toggle_analysis.items[id].unique_payloads
                 /\ Cardinality(toggle_analysis.items[id].unique_payloads) = 2

(***************************************************************************)
(* C22, amended.  When an id is classified as a binary toggle and the two  *)
(* state labels differ, the mapping is as C22 states.  When the operator   *)
(* gave the same text for both states, state_payloads has that one label,  *)
(* mapped to the to_payload of the first correlated transition.            *)
(***************************************************************************)
C22_StateMappingByLabels ==
    (analyzer_op = "analyze_binary_toggles" /\ IsToggleCapture)
    => \A id \in ToggleIds :
          IsBinaryToggle(id)
          => LET event == FirstCorrelatedEvent(id)
                 j == FirstChangeIndex(id, event)
                 from_payload == FramesOfId(id)[j - 1].data
                 to_payload == FramesOfId(id)[j].data
                 state_payloads == toggle_analysis.items[id].state_payloads
             IN  /\ DOMAIN state_payloads
                       = {ToggleMeta.initial_state, ToggleMeta.toggled_state}
                 /\ Cardinality(toggle_analysis.items[id].unique_payloads) = 2
                 /\ {from_payload, to_payload}
                       = toggle_analysis.items[id].unique_payloads
                 /\ IF ToggleMeta.initial_state = ToggleMeta.toggled_state
                    THEN state_payloads[ToggleMeta.initial_state] = to_payload
                    ELSE IF event.from_state = ToggleMeta.initial_state
                    THEN /\ state_payloads[ToggleMeta.initial_state] = from_payload
                         /\ state_payloads[ToggleMeta.toggled_state] = to_payload
                    ELSE /\ state_payloads[ToggleMeta.toggled_state] = from_payload
                         /\ state_payloads[ToggleMeta.initial_state] = to_payload

\* A binary toggle whose first correlated transition belongs to the second toggle
\* event, which leads from the toggled state back to the initial state.
C22_Witness ==
    /\ analyzer_op = "analyze_binary_toggles"
    /\ IsToggleCapture
    /\ \E id \in ToggleIds :
          /\ IsBinaryToggle(id)
          /\ FirstCorrelatedEvent(id).from_state = ToggleMeta.toggled_state
          /\ FirstCorrelatedEvent(id).from_state # ToggleMeta.initial_state

(***************************************************************************)
(* Reference definitions for the claims about saving and loading.          *)
(***************************************************************************)
\* The capture save_capture wrote to the file that was loaded last.
SavedCapture == saved[persist_op.filename].messages

\* The capture load_capture registered.
LoadedCapture == captures[persist_op.returned]

SameFrameFields(a, b) ==
    /\ a.timestamp = b.timestamp
    /\ a.arbitration_id = b.arbitration_id
    /\ a.dlc = b.dlc
    /\ a.data = b.data
    /\ a.is_extended_id = b.is_extended_id
    /\ a.is_remote_frame = b.is_remote_frame
    /\ a.is_error_frame = b.is_error_frame

SameMetadata(a, b) ==
    /\ a.attrs = b.attrs
    /\ a.action_timestamps = b.action_timestamps
    /\ a.toggle_events = b.toggle_events
    /\ a.initial_state = b.initial_state
    /\ a.toggled_state = b.toggled_state
    /\ a.capture_type = b.capture_type

(***************************************************************************)
(* C23.  Round trip of frames and metadata: save_capture followed by       *)
(* load_capture of the written file yields the same number of frames in    *)
(* the same order, each equal in timestamp, arbitration_id, dlc, data,     *)
(* is_extended_id, is_remote_frame and is_error_frame, and the same action *)
(* timestamps or toggle events, initial_state and toggled_state.           *)
(***************************************************************************)
C23_RoundTrip ==
    persist_op.op = "load_capture"
    => /\ persist_op.returned \in DOMAIN captures
       /\ Len(LoadedCapture) = Len(SavedCapture)
       /\ \A i \in DOMAIN SavedCapture :
             /\ SameFrameFields(LoadedCapture[i], SavedCapture[i])
             /\ SameMetadata(LoadedCapture[i], SavedCapture[i])

\* A toggle capture with two toggle events and an extended remote frame was saved and
\* loaded.
C23_Witness ==
    /\ persist_op.op = "load_capture"
    /\ Len(SavedCapture) >= 2
    /\ Len(SavedCapture[1].toggle_events) = 2
    /\ SavedCapture[1].initial_state = "OFF"
    /\ \E i \in DOMAIN SavedCapture :
          SavedCapture[i].is_remote_frame /\ SavedCapture[i].dlc # Len(SavedCapture[i].data)

(***************************************************************************)
(* C24.  Round trip of the capture name: a capture saved by save_capture   *)
(* under the name N and then loaded by load_capture from the file          *)
(* save_capture wrote is registered in captures under the same name N.     *)
(***************************************************************************)
C24_NameRoundTrip ==
    persist_op.op = "load_capture"
    => /\ persist_op.returned = saved[persist_op.filename].action_name
       /\ saved[persist_op.filename].action_name \in DOMAIN captures
       /\ captures[saved[persist_op.filename].action_name]
             = CaptureFromJson(files[persist_op.filename])

(***************************************************************************)
(* C25.  Every entry of a capture's frame sequence is a frame received     *)
(* from the bus: capture-level metadata (action timestamps, toggle events, *)
(* initial and toggled state labels) is never stored as an entry of the    *)
(* frame sequence, in memory or in the persisted form.                     *)
(***************************************************************************)
C25_FramesOnly ==
    /\ \A name \in DOMAIN captures :
          \A i \in DOMAIN captures[name] :
             /\ captures[name][i].attrs = {}
             /\ captures[name][i] \in SavedFrames
    /\ \A filename \in DOMAIN files :
          \A i \in DOMAIN files[filename] :
             DOMAIN files[filename][i] = BaseKeys

ShownOf(snapshot, msg_name) ==
    { [signal_name |-> snapshot[i].signal_name, value |-> snapshot[i].value] :
         i \in { j \in DOMAIN snapshot : snapshot[j].msg_name = msg_name } }

\* Every value shown for the message is None, or all of them are the values one
\* received frame decodes to.
FromOneFrame(snapshot, msg_name) ==
    \/ \A e \in ShownOf(snapshot, msg_name) : e.value = NoResult
    \/ \E f \in heard :
          /\ decode_message(f).returned = "dict"
          /\ decode_message(f).message_name = msg_name
          /\ \A e \in ShownOf(snapshot, msg_name) :
                \E i \in DOMAIN decode_message(f).signals :
                   decode_message(f).signals[i] = e

C27_ConsistentSnapshot ==
    \A msg_name \in ConfigNames :
        /\ FromOneFrame(log_entries, msg_name)
        /\ FromOneFrame(log_line, msg_name)

\* A line was printed with the values of one frame while the listener, holding the
\* next frame with other values, was waiting for the lock.
C27_Witness ==
    /\ main_pc = "sleep"
    /\ Len(log_line) = Len(LoggedSignals)
    /\ listener_pc = "update"
    /\ recv_msg.arbitration_id = 963
    /\ \E f \in heard :
          /\ f.arbitration_id = 963
          /\ f # recv_msg
          /\ \A e \in ShownOf(log_line, "BCM_Lamp_Stat_FD1") :
                \E i \in DOMAIN decode_message(f).signals :
                   decode_message(f).signals[i] = e

(***************************************************************************)
(* C28.  A transport error raised by the receive call of the ingestion     *)
(* loop is fatal: it is not retried, and it is propagated to the caller,   *)
(* so that run() stops logging and terminates reporting failure instead of *)
(* continuing as if ingestion were healthy.                                *)
(***************************************************************************)
\* Once the receive call has raised while the logger was running: the listener makes
\* no further receive attempt, run() begins no further log_current_state, and run()
\* does not return True.
C28_TransportErrorFatal ==
    [][error_printed =>
          /\ listener_pc' # "recv"
          /\ (main_pc' = "reading" => main_pc = "reading")
          /\ returned' # "True"]_vars

(***************************************************************************)
(* C29.  Cooperative cancellation: once the stop flag (running) is         *)
(* cleared, the listener loop completes at most the one receive attempt it *)
(* may have in progress or be about to start, and then exits; assuming     *)
(* every receive call returns (frame, timeout or error), the listener      *)
(* eventually terminates.                                                  *)
(***************************************************************************)
\* The listener thread was started and the stop flag is cleared.
Stopped == listener_pc # "not started" /\ ~running

C29_CooperativeCancellation ==
    /\ [](recv_after_stop <= 1)
    /\ [][~running => (listener_pc' = "recv" => listener_pc = "recv")]_vars
    /\ (Stopped ~> listener_pc = "done")

\* The stop flag was cleared while a receive call was in progress or about to start;
\* that one call returned without an error and the listener, which had stored a frame
\* of BCM_Lamp_Stat_FD1, left the loop.
C29_Witness ==
    /\ ~running
    /\ listener_pc = "done"
    /\ recv_after_stop = 1
    /\ ~error_printed
    /\ stats.decoded_messages > 0
    /\ message_timestamps["BCM_Lamp_Stat_FD1"]

(***************************************************************************)
(* C30.  In changes-only mode, over any sequence of received messages, a   *)
(* message is displayed and logged if and only if its arbitration id has   *)
(* not been received before or its payload differs from the payload of the *)
(* most recent previously received message with the same id; after each    *)
(* message, last_message_data[id] equals the payload of the latest         *)
(* received message of that id.                                            *)
(***************************************************************************)
\* The positions before k of the messages with the id of the k-th message.
EarlierSameId(k) ==
    { j \in 1..(k - 1) : run_received[j].arbitration_id = run_received[k].arbitration_id }

\* The position of the latest message with the id.
LatestOfId(id) ==
    CHOOSE k \in DOMAIN run_received :
        /\ run_received[k].arbitration_id = id
        /\ \A j \in DOMAIN run_received :
              run_received[j].arbitration_id = id => j <= k

\* The k-th message is new or differs from the one before it with the same id.
NewOrChanged(k) ==
    \/ EarlierSameId(k) = {}
    \/ LET j == CHOOSE i \in EarlierSameId(k) : \A h \in EarlierSameId(k) : h <= i
       IN  run_received[j].data # run_received[k].data

C30_ChangesOnly ==
    changes_only =>
        /\ Len(shown) = Len(run_received)
        /\ \A k \in DOMAIN run_received : shown[k] <=> NewOrChanged(k)
        /\ { log_file[i].message : i \in DOMAIN log_file }
              = { k \in DOMAIN run_received : NewOrChanged(k) }
        /\ \A i \in DOMAIN log_file :
              /\ log_file[i].arbitration_id = run_received[log_file[i].message].arbitration_id
              /\ log_file[i].data = ListOfBytes(run_received[log_file[i].message].data)
        /\ DOMAIN last_message_data
              = { run_received[k].arbitration_id : k \in DOMAIN run_received }
        /\ \A id \in DOMAIN last_message_data :
              last_message_data[id] = run_received[LatestOfId(id)].data

\* Four messages of one id in changes-only mode: a payload, the same payload again
\* (not shown), another payload, and the first payload once more (shown).
C30_Witness ==
    /\ changes_only
    /\ Len(run_received) = 4
    /\ \A k \in 1..4 : run_received[k].arbitration_id = 817
    /\ run_received[1].data = run_received[2].data
    /\ run_received[3].data # run_received[2].data
    /\ run_received[4].data = run_received[1].data
    /\ shown = <<TRUE, FALSE, TRUE, TRUE>>
    /\ Len(log_file) = 3

(***************************************************************************)
(* C31.  For each frame id of a toggle capture, the unique_payloads that   *)
(* analyze_binary_toggles uses for classification and reports is the set   *)
(* of all distinct payloads carried by that id's frames in the capture.    *)
(***************************************************************************)
C31_UniquePayloadsAll ==
    (analyzer_op = "analyze_binary_toggles" /\ IsToggleCapture)
    => \A id \in ToggleIds :
          /\ analyzed[id].unique_payloads = DistinctPayloads(FramesOf("toggle"), id)
          /\ id \in DOMAIN toggle_analysis.items
             => toggle_analysis.items[id].unique_payloads
                   = DistinctPayloads(FramesOf("toggle"), id)

\* C31 as the code has it: the set is collected at the payload changes, so it holds
\* all distinct payloads of an id that changes payload at least once, which every
\* reported id does, and is empty for an id whose frames all carry one payload.
C31_UniquePayloadsOfChanges ==
    (analyzer_op = "analyze_binary_toggles" /\ IsToggleCapture)
    => \A id \in ToggleIds :
          /\ analyzed[id].unique_payloads
                = IF Cardinality(DistinctPayloads(FramesOf("toggle"), id)) >= 2
                  THEN DistinctPayloads(FramesOf("toggle"), id)
                  ELSE {}
          /\ id \in DOMAIN toggle_analysis.items
             => /\ toggle_analysis.items[id].unique_payloads
                      = DistinctPayloads(FramesOf("toggle"), id)
                /\ Cardinality(DistinctPayloads(FramesOf("toggle"), id)) >= 2

\* One id is reported with the payloads it changes between; the other id has frames
\* with one payload only, an empty unique_payloads and no entry.
C31_Witness ==
    /\ analyzer_op = "analyze_binary_toggles"
    /\ IsToggleCapture
    /\ \E id \in ToggleIds :
          /\ id \in DOMAIN toggle_analysis.items
          /\ Cardinality(toggle_analysis.items[id].unique_payloads) >= 2
    /\ \E id \in ToggleIds :
          /\ Cardinality(DistinctPayloads(FramesOf("toggle"), id)) = 1
          /\ analyzed[id].unique_payloads = {}
          /\ id \notin DOMAIN toggle_analysis.items

(***************************************************************************)
(* C32.  For each frame id, correlated_changes equals the number of toggle *)
(* events that have at least one payload change of that id within the      *)
(* +/-2.0 second window (|t_change - t_event| <= 2.0), each event          *)
(* contributing at most one match (the first payload change in list        *)
(* order); hence correlated_changes <= len(toggle_events),                 *)
(* correlation_ratio is in [0, 1] and binary_confidence =                  *)
(* min(100, 100 * correlated_changes / len(toggle_events)) for classified  *)
(* ids.                                                                    *)
(***************************************************************************)
\* The positions of the frames of the id whose payload differs from the previous one.
ChangePositions(id) ==
    { j \in 2..Len(FramesOfId(id)) : FramesOfId(id)[j].data # FramesOfId(id)[j - 1].data }

\* The payload changes of the id within 2.0 seconds of the k-th toggle event.
ChangesNearEvent(id, k) ==
    { j \in ChangePositions(id) :
         Abs(FramesOfId(id)[j].timestamp - ToggleMeta.toggle_events[k].timestamp)
            <= 2 * TicksPerSecond }

\* The toggle events that have such a change, in the order of the events.
MatchedEvents(id) ==
    SelectSeq([k \in DOMAIN ToggleMeta.toggle_events |-> k],
              LAMBDA k : ChangesNearEvent(id, k) # {})

C32_CorrelatedChanges ==
    (analyzer_op = "analyze_binary_toggles" /\ IsToggleCapture)
    => \A id \in ToggleIds :
          LET a == analyzed[id]
              n == Len(ToggleMeta.toggle_events)
          IN  /\ a.correlated_changes = Cardinality(EventsWithChange(id))
              /\ Len(a.toggle_correlations) = Len(MatchedEvents(id))
              /\ \A i \in DOMAIN a.toggle_correlations :
                    LET k == MatchedEvents(id)[i]
                        j == CHOOSE first \in ChangesNearEvent(id, k) :
                                \A other \in ChangesNearEvent(id, k) : first <= other
                    IN  /\ a.toggle_correlations[i].toggle_event = ToggleMeta.toggle_events[k]
                        /\ a.toggle_correlations[i].payload_change
                              = [timestamp |-> FramesOfId(id)[j].timestamp,
                                 from_payload |-> FramesOfId(id)[j - 1].data,
                                 to_payload |-> FramesOfId(id)[j].data]
              /\ a.correlated_changes <= n
              /\ a.correlation_ratio.den > 0
              /\ 0 <= a.correlation_ratio.num
              /\ a.correlation_ratio.num <= a.correlation_ratio.den
              /\ n > 0 => a.correlation_ratio.num * n
                             = a.correlated_changes * a.correlation_ratio.den
              /\ a.is_binary_toggle
                 => /\ a.binary_confidence.num * n
                          = 100 * a.correlated_changes * a.binary_confidence.den
                    /\ a.binary_confidence.num <= 100 * a.binary_confidence.den
              /\ id \in DOMAIN toggle_analysis.items => toggle_analysis.items[id] = a

\* Two toggle events and an id with two payload changes, both within 2.0 seconds of
\* the second event: each event is counted once.
C32_Witness ==
    /\ analyzer_op = "analyze_binary_toggles"
    /\ IsToggleCapture
    /\ Len(ToggleMeta.toggle_events) = 2
    /\ \E id \in ToggleIds :
          /\ Cardinality(ChangesNearEvent(id, 2)) = 2
          /\ analyzed[id].correlated_changes = 2
          /\ analyzed[id].is_binary_toggle

(***************************************************************************)
(* C37.  In analyze_binary_toggles one payload change is matched to at     *)
(* most one toggle event: for every frame id correlated_changes never      *)
(* exceeds payload_changes_count, whatever the spacing of the toggle       *)
(* events (including events less than 4 s apart, as capture_binary_toggle  *)
(* produces with its default state_duration of 3 s).                       *)
(***************************************************************************)
C37_ChangeMatchedOnce ==
    (analyzer_op = "analyze_binary_toggles" /\ IsToggleCapture)
    => \A id \in ToggleIds :
          /\ analyzed[id].correlated_changes <= analyzed[id].payload_changes_count
          /\ \A i, j \in DOMAIN analyzed[id].toggle_correlations :
                analyzed[id].toggle_correlations[i].payload_change
                   = analyzed[id].toggle_correlations[j].payload_change
                => i = j

(***************************************************************************)
(* C33.  The independent copies of the Motorola bit extraction agree: for  *)
(* every 8-byte payload and every (start_bit, length) with                 *)
(* 0 <= start_bit - length + 1 and start_bit <= 63,                        *)
(* Signal._extract_motorola, the raw value of                              *)
(* CANStandaloneLogger.extract_signal and the experiments                  *)
(* EmbeddedCANLogger.extract_signal_value return the same raw value, so    *)
(* every logger decodes a monitored signal to the same value from the same *)
(* frame.                                                                  *)
(* The code returns 1, 2 and 0 for start_bit = 11, length = 2 on           *)
(* 00 10 00 00 00 00 00 00.                                                *)
(***************************************************************************)
C33_ExtractionsAgree ==
    (/\ op \in {"Signal.decode", "extract_signal", "extract_signal_value"}
     /\ sig.byte_order = "big_endian"
     /\ Len(data) = FrameBytes
     /\ MotorolaInFrame)
    => LET by_signal == _extract_motorola(sig, data)
           by_standalone == extract_signal(data, sig.start, sig.length, sig.scale,
                                           sig.offset, sig.is_signed, sig.choices).extracted
           by_experiments == extract_signal_value(data, sig.start, sig.length)
       IN  /\ by_experiments.kind = "number"
           /\ by_signal = by_standalone
           /\ by_standalone = by_experiments.value
           /\ op = "Signal.decode" => extracted = by_signal
           /\ op = "extract_signal" => extracted = by_standalone
           /\ op = "extract_signal_value" => result = by_experiments

(***************************************************************************)
(* C34.  compare_captures only counts and reports traffic that was         *)
(* received from the bus: whichever stored captures are passed as action   *)
(* and as baseline (plain, multi-action or binary-toggle captures), the    *)
(* synthetic metadata entry (arbitration id 0, timestamp 0, eight zero     *)
(* bytes) is excluded from the counts, payload sets and durations, and no  *)
(* frame id is reported that no received frame of either capture carried.  *)
(* The code strips the entry from the action capture only when it has      *)
(* action_timestamps: the entry of a toggle capture is counted as id 0.    *)
(***************************************************************************)
\* The ids carried by the received frames of the stored captures.
ReceivedIds ==
    UNION { { captures[name][i].arbitration_id :
                 i \in { j \in DOMAIN captures[name] : captures[name][j].attrs = {} } } :
            name \in DOMAIN captures }

C34_ReceivedTrafficOnly ==
    (analyzer_op = "compare_captures" /\ differences.kind = "dict")
    => /\ DOMAIN compared \subseteq ReceivedIds
       /\ DOMAIN differences.items \subseteq ReceivedIds
       /\ \A id \in DOMAIN compared :
             /\ compared[id].action_payloads # {ZeroData}
             /\ compared[id].baseline_payloads # {ZeroData}

(***************************************************************************)
(* C35.  The ranking shown by print_differences agrees with the confidence *)
(* it prints: an entry listed earlier never has a lower confidence score   *)
(* (_calculate_confidence) than an entry listed later, and the 5 ids       *)
(* plot_message_timeline selects by default are the 5 first-ranked entries *)
(* of print_differences.  The listing is ordered by the key tuple          *)
(* (action_correlated, is_new, len(new_payloads), abs(freq_change_pct)),   *)
(* the plot by _calculate_confidence: an id of the baseline that is        *)
(* correlated with the action (confidence 15 to 45) is listed before a new *)
(* id that is not (confidence 90 or more).  The formula is the first part  *)
(* of the claim.                                                           *)
(***************************************************************************)
C35_RankingAgreesWithConfidence ==
    analyzer_op = "print_differences"
    => \A i, j \in DOMAIN sorted_diffs :
          i < j => _calculate_confidence(differences.items[sorted_diffs[i]])
                      >= _calculate_confidence(differences.items[sorted_diffs[j]])

(***************************************************************************)
(* C36.  After any sequence of add_message calls, the three indexes of     *)
(* EmbeddedDBCDatabase describe the same set of messages: every message in *)
(* the messages list is the one returned by get_message_by_name for its    *)
(* name and by get_message_by_frame_id for its frame id, and every message *)
(* reachable by name is the message reachable by its own frame id (and     *)
(* conversely).                                                            *)
(***************************************************************************)
C36_IndexesAgree ==
    /\ \A i \in DOMAIN messages :
          /\ messages[i].name \in DOMAIN _message_dict
          /\ _message_dict[messages[i].name] = messages[i]
          /\ messages[i].frame_id \in DOMAIN _frame_id_dict
          /\ _frame_id_dict[messages[i].frame_id] = messages[i]
    /\ \A name \in DOMAIN _message_dict :
          /\ _message_dict[name].frame_id \in DOMAIN _frame_id_dict
          /\ _frame_id_dict[_message_dict[name].frame_id] = _message_dict[name]
    /\ \A frame_id \in DOMAIN _frame_id_dict :
          /\ _frame_id_dict[frame_id].name \in DOMAIN _message_dict
          /\ _message_dict[_frame_id_dict[frame_id].name] = _frame_id_dict[frame_id]

(***************************************************************************)
(* C38.  In a capture_messages run for a non-baseline action with          *)
(* repeat_count = n > 1, at every step action_count <= n and the number of *)
(* recorded prompt timestamps equals action_count - 1; the first recorded  *)
(* prompt is at or after duration, each later one at least repeat_interval *)
(* after the previous one, and the metadata stored with a non-empty        *)
(* capture lists exactly action_count timestamps, beginning with 0 and     *)
(* non-decreasing.                                                         *)
(***************************************************************************)
\* capture_messages is in its loop or behind it, called for a repeated action.
RepeatedRun ==
    /\ cm_pc # "not called"
    /\ cm_action_count > 0
    /\ cm_args.action_name # Baseline
    /\ cm_args.repeat_count > 1

DistinctLabels == bt_args.initial_state # bt_args.toggled_state

\* The label that is not the given one.
OtherLabel(label) ==
    IF label = bt_args.initial_state THEN bt_args.toggled_state ELSE bt_args.initial_state

EventsAlternate ==
    /\ bt_toggle_events # <<>> => bt_toggle_events[1].from_state = bt_args.initial_state
    /\ \A i \in DOMAIN bt_toggle_events :
          /\ bt_toggle_events[i].from_state \in {bt_args.initial_state, bt_args.toggled_state}
          /\ bt_toggle_events[i].to_state = OtherLabel(bt_toggle_events[i].from_state)
    /\ \A i \in 2..Len(bt_toggle_events) :
          /\ bt_toggle_events[i].from_state = bt_toggle_events[i - 1].to_state
          /\ bt_toggle_events[i - 1].timestamp <= bt_toggle_events[i].timestamp

\* The run reached its end without a KeyboardInterrupt.
Uninterrupted == bt_pc = "done" /\ ~bt_interrupted

\* As claimed: 2n - 1 events for every toggle_count n.  With toggle_count = 0 the
\* loop body never runs and no event is recorded, where 2n - 1 is -1.
C39_EventsAlternate ==
    DistinctLabels =>
        /\ EventsAlternate
        /\ Uninterrupted => Len(bt_toggle_events) = 2 * bt_args.toggle_count - 1

\* Amended: 2n - 1 events for toggle_count n >= 1, none for toggle_count 0.
C39_EventsAlternateFromOne ==
    DistinctLabels =>
        /\ EventsAlternate
        /\ (Uninterrupted /\ bt_args.toggle_count >= 1) =>
              Len(bt_toggle_events) = 2 * bt_args.toggle_count - 1
        /\ (Uninterrupted /\ bt_args.toggle_count = 0) => bt_toggle_events = <<>>

\* An uninterrupted run with toggle_count 2 and the labels OFF and ON: three events,
\* OFF to ON, ON to OFF, OFF to ON, stored with the frames captured.
C39_Witness ==
    /\ Uninterrupted
    /\ bt_args.toggle_count = 2
    /\ bt_args.initial_state = "OFF"
    /\ bt_args.toggled_state = "ON"
    /\ Len(bt_toggle_events) = 3
    /\ bt_toggle_events[2].from_state = "ON"
    /\ bt_toggle_events[3].to_state = "ON"
    /\ bt_messages # <<>>
    /\ Head(bt_result).toggle_events = bt_toggle_events

(***************************************************************************)
(* C40.  In changes-only mode, over any sequence of received messages, a   *)
(* displayed message is tagged [NEW] exactly when its arbitration id is    *)
(* received for the first time, and tagged [CHANGED] exactly when its id   *)
(* was received before with a different payload.  format_message_output    *)
(* reads last_message_data after has_message_changed has stored the id:    *)
(* the tag is [NEW] while one id is stored and [CHANGED] from the second   *)
(* id on.                                                                  *)
(***************************************************************************)
C40_NewAndChangedTags ==
    changes_only =>
        \A k \in DOMAIN run_received :
            shown[k] =>
                /\ indicators[k] = " [NEW]" <=> EarlierSameId(k) = {}
                /\ indicators[k] = " [CHANGED]" <=>
                      (EarlierSameId(k) # {} /\ NewOrChanged(k))

====
